---------------------------- MODULE Spec2Model ----------------------------
(***************************************************************************)
(* Model of the asteroid impact simulation service                         *)
(* (astroyd-meteor-madness): request validation (pydantic models),         *)
(* mitigation adjustment, impact physics (ImpactCalculator), damage        *)
(* assessment (DamageAssessor), heuristic enhancer (DamageMLEnhancer) and  *)
(* the simulate endpoint that sequences them.                              *)
(*                                                                         *)
(* Python floats are modelled as decimal floating-point numbers with a     *)
(* three-digit mantissa, [m |-> mantissa, e |-> exponent] standing for     *)
(* m * 10^e with m = 0 or 100 <= |m| <= 999.  Every arithmetic operation   *)
(* is computed on that representation and rounded, the way IEEE doubles    *)
(* round after every operation (with 3 digits instead of 53 bits), so all  *)
(* intermediate integers stay below 2^31.  Python ints are TLA+ integers.  *)
(* An operation that raises in Python (ZeroDivisionError, ValueError from  *)
(* math.log10, pydantic ValidationError) yields the value Raise.           *)
(***************************************************************************)
EXTENDS Integers, Sequences, FiniteSets, TLC

(***************************************************************************)
(* Floating point                                                          *)
(***************************************************************************)
Raise == [exc |-> TRUE]

IsRaise(x) == x = Raise

\* the element of a one-element set.  The(\{e : x \in \{d\}\}) is e with x
\* bound to the value of d: an operand, or a local variable of the code, is
\* evaluated once, before the expression that uses it.  Where several locals
\* depend on one another the bindings nest, the first assignment outermost
\* (written last)
The(S) == CHOOSE x \in S : TRUE

Abs(n) == IF n < 0 THEN -n ELSE n

Sgn(n) == IF n < 0 THEN -1 ELSE IF n > 0 THEN 1 ELSE 0

Pow10(k) ==
    CASE k <= 0 -> 1
      [] k = 1  -> 10
      [] k = 2  -> 100
      [] k = 3  -> 1000
      [] k = 4  -> 10000
      [] k = 5  -> 100000
      [] k = 6  -> 1000000
      [] k = 7  -> 10000000
      [] k = 8  -> 100000000
      [] OTHER  -> 1000000000

\* the number of decimal digits of m > 0
Digits(m) ==
    IF m < 10 THEN 1 ELSE IF m < 100 THEN 2 ELSE IF m < 1000 THEN 3
    ELSE IF m < 10000 THEN 4 ELSE IF m < 100000 THEN 5 ELSE IF m < 1000000 THEN 6
    ELSE IF m < 10000000 THEN 7 ELSE IF m < 100000000 THEN 8
    ELSE IF m < 1000000000 THEN 9 ELSE 10

\* m * 10^e (m > 0) rounded half up to a three-digit mantissa
NormPos(m, e) ==
    IF m = 0 THEN [m |-> 0, e |-> 0]
    ELSE IF m < 1000 THEN [m |-> m * Pow10(3 - Digits(m)), e |-> e - (3 - Digits(m))]
    ELSE LET k == Digits(m) - 3
             r == (m + 5 * Pow10(k - 1)) \div Pow10(k)
         IN  IF r >= 1000 THEN [m |-> 100, e |-> e + k + 1]
             ELSE [m |-> r, e |-> e + k]

NormV(m, e) == The({[m |-> Sgn(m) * p.m, e |-> p.e] : p \in {NormPos(Abs(m), e)}})

Norm(m0, e0) == The({NormV(m, e) : m \in {m0}, e \in {e0}})

Flt(m, e) == Norm(m, e)

FZero == [m |-> 0, e |-> 0]

FromInt(n) == Norm(n, 0)

FNeg(a) == The({IF x = Raise THEN Raise ELSE [m |-> -x.m, e |-> x.e] : x \in {a}})

FMulV(a, b) == IF a = Raise \/ b = Raise THEN Raise ELSE Norm(a.m * b.m, a.e + b.e)

FMul(a, b) == The({FMulV(x, y) : x \in {a}, y \in {b}})

\* Python float division: ZeroDivisionError on a zero divisor.  An operand
\* that is Raise is an exception already under way: every arithmetic operator
\* passes it on.
FDivV(a, b) ==
    IF a = Raise \/ b = Raise THEN Raise
    ELSE IF b.m = 0 THEN Raise
    ELSE Norm(Sgn(a.m) * Sgn(b.m) * ((Abs(a.m) * 10000) \div Abs(b.m)), a.e - b.e - 4)

FDiv(a, b) == The({FDivV(x, y) : x \in {a}, y \in {b}})

FAddV(a, b) ==
    IF a = Raise \/ b = Raise THEN Raise
    ELSE IF a.m = 0 THEN b
    ELSE IF b.m = 0 THEN a
    ELSE IF a.e >= b.e
         THEN IF a.e - b.e > 4 THEN a
              ELSE Norm(a.m * Pow10(a.e - b.e) + b.m, b.e)
         ELSE IF b.e - a.e > 4 THEN b
              ELSE Norm(b.m * Pow10(b.e - a.e) + a.m, a.e)

FAdd(a, b) == The({FAddV(x, y) : x \in {a}, y \in {b}})

FSub(a, b) == The({FAddV(x, FNeg(y)) : x \in {a}, y \in {b}})

\* sign of a - b, exact on normalised numbers
FCmpV(a, b) ==
    IF a.m = 0 THEN -Sgn(b.m)
    ELSE IF b.m = 0 THEN Sgn(a.m)
    ELSE IF Sgn(a.m) # Sgn(b.m) THEN Sgn(a.m)
    ELSE IF a.e > b.e THEN Sgn(a.m)
    ELSE IF a.e < b.e THEN -Sgn(a.m)
    ELSE Sgn(a.m - b.m)

FCmp(a, b) == The({FCmpV(x, y) : x \in {a}, y \in {b}})

FLt(a, b) == FCmp(a, b) < 0
FLe(a, b) == FCmp(a, b) <= 0
FGt(a, b) == FCmp(a, b) > 0
FGe(a, b) == FCmp(a, b) >= 0

FMin(a, b) ==
    The({IF x = Raise \/ y = Raise THEN Raise ELSE IF FCmpV(y, x) < 0 THEN y ELSE x :
         x \in {a}, y \in {b}})
FMax(a, b) ==
    The({IF x = Raise \/ y = Raise THEN Raise ELSE IF FCmpV(y, x) > 0 THEN y ELSE x :
         x \in {a}, y \in {b}})

FAbs(a) == The({IF x = Raise THEN Raise ELSE [m |-> Abs(x.m), e |-> x.e] : x \in {a}})

\* Python int(x): truncation toward zero
TruncV(a) ==
    IF a.e >= 0 THEN a.m * Pow10(a.e)
    ELSE IF -a.e > 3 THEN 0
    ELSE Sgn(a.m) * (Abs(a.m) \div Pow10(-a.e))

Trunc(a) == The({TruncV(x) : x \in {a}})

\* mantissa and exponent with the trailing zeros of the mantissa removed
Reduced(a) ==
    IF a.m = 0 THEN a
    ELSE IF a.m % 100 = 0 THEN [m |-> a.m \div 100, e |-> a.e + 2]
    ELSE IF a.m % 10 = 0 THEN [m |-> a.m \div 10, e |-> a.e + 1]
    ELSE a

\* Python int(n * x) for an int n >= 0 and a float x >= 0: the product is
\* exact in a double for the magnitudes used here, so this is floor(n * x)
TruncIntMulV(n, r) ==
    IF r.e >= 0 THEN n * r.m * Pow10(r.e)
    ELSE (n \div Pow10(-r.e)) * r.m + ((n % Pow10(-r.e)) * r.m) \div Pow10(-r.e)

TruncIntMul(n0, a) == The({TruncIntMulV(n, Reduced(x)) : n \in {n0}, x \in {a}})

\* largest r in lo..hi with r^k <= x, for k = 2 or 3
RECURSIVE RootSearch(_, _, _, _)
RootSearch(x, k, lo, hi) ==
    IF lo >= hi THEN lo
    ELSE The({IF (IF k = 2 THEN mid * mid ELSE mid * mid * mid) <= x
              THEN RootSearch(x, k, mid, hi)
              ELSE RootSearch(x, k, lo, mid - 1) : mid \in {(lo + hi + 1) \div 2}})

\* x ** (1/3) for x >= 0
FCbrtV(a) ==
    IF a = Raise THEN Raise
    ELSE IF a.m = 0 THEN FZero
    ELSE LET j == 4 + ((a.e - 4) % 3)
         IN  [m |-> RootSearch(a.m * Pow10(j), 3, 100, 999), e |-> (a.e - j) \div 3]

FCbrt(a) == The({FCbrtV(x) : x \in {a}})

\* x ** (1/2) for x >= 0
FSqrtV(a) ==
    IF a = Raise THEN Raise
    ELSE IF a.m = 0 THEN FZero
    ELSE LET j == 2 + ((a.e - 2) % 2)
         IN  [m |-> RootSearch(a.m * Pow10(j), 2, 100, 999), e |-> (a.e - j) \div 2]

FSqrt(a) == The({FSqrtV(x) : x \in {a}})

\* x ** (1/4) for x >= 0
FRoot4(a) == FSqrt(FSqrt(a))

\* hundred-thousandths of log10(y / 1000) for 1000 <= y < 10000, by repeated
\* squaring: one binary digit of the logarithm per step
RECURSIVE LogBits(_, _, _)
LogBits(y, w, n) ==
    IF n = 0 THEN 0
    ELSE The({IF s >= 10000 THEN w + LogBits(s \div 10, w \div 2, n - 1)
              ELSE LogBits(s, w \div 2, n - 1) : s \in {(y * y) \div 1000}})

\* math.log10: ValueError (math domain error) unless x > 0
FLog10V(a) ==
    IF a = Raise THEN Raise
    ELSE IF a.m <= 0 THEN Raise
    ELSE Norm((a.e + 2) * 100000 + LogBits(a.m * 10, 50000, 12), -5)

FLog10(a) == The({FLog10V(x) : x \in {a}})

\* e ** n for an integer n >= 0
RECURSIVE PowE(_)
PowE(n) == IF n <= 0 THEN Flt(100, -2) ELSE FMul(Flt(272, -2), PowE(n - 1))

\* math.exp
FExpV(a) ==
    The({ The({ The({ The({ The({ The({ The({
        IF a.m < 0 THEN FDiv(Flt(100, -2), p) ELSE p
      : p  \in {FMul(PowE(n),
                     FAdd(FAdd(FAdd(FAdd(Flt(100, -2), f), t2), t3), t4))} })
      : t4 \in {FDiv(FMul(t3, f), FromInt(4))} })
      : t3 \in {FDiv(FMul(t2, f), FromInt(3))} })
      : t2 \in {FDiv(FMul(f, f), FromInt(2))} })
      : f  \in {FSub(x, FromInt(n))} })
      : n  \in {TruncV(x)} })
      : x  \in {[m |-> Abs(a.m), e |-> a.e]} })

FExp(a) == The({FExpV(x) : x \in {a}})

FPi == Flt(314, -2)

\* math.sin(math.radians(deg)) for 0 <= deg <= 90, by its Taylor series
FSinDegV(x) ==
    The({ The({ The({ The({
        FMin(FSub(x, FAdd(FSub(t3, t5), t7)), Flt(100, -2))
      : t7 \in {FDiv(FMul(t5, x2), FromInt(42))} })
      : t5 \in {FDiv(FMul(t3, x2), FromInt(20))} })
      : t3 \in {FDiv(FMul(x, x2), FromInt(6))} })
      : x2 \in {FMul(x, x)} })

FSinDeg(deg) == The({FSinDegV(x) : x \in {FDiv(FMul(FromInt(deg), FPi), FromInt(180))}})

(***************************************************************************)
(* Values of optional fields                                               *)
(***************************************************************************)
\* Python None
NoneV == [none |-> TRUE]

\* a keyword argument / JSON key that the caller did not supply
Absent == [absent |-> TRUE]

IsFloat(x) == x # NoneV /\ x # Absent /\ x # Raise

(***************************************************************************)
(* app/models/asteroid.py, app/models/impact.py: the pydantic models       *)
(***************************************************************************)
AsteroidComposition == {"iron", "stony", "carbonaceous", "mixed"}

TerrainType ==
    {"ocean", "land", "urban", "rural", "mountain", "desert", "forest", "ice"}

\* @validator('density') set_density(cls, v, values)
set_density(v, composition) ==
    IF v = NoneV
    THEN IF composition = "iron" THEN Flt(7800, 0)
         ELSE IF composition = "stony" THEN Flt(3000, 0)
         ELSE IF composition = "carbonaceous" THEN Flt(2000, 0)
         ELSE Flt(4000, 0)
    ELSE v

\* @validator('diameter') validate_diameter(cls, v, values); mass and density
\* are values.get('mass') and values.get('density'), None when the field is
\* not (yet) among the validated ones
validate_diameter(v, mass, density) ==
    IF mass # NoneV /\ mass.m # 0 /\ density # NoneV /\ density.m # 0
    THEN The({
             IF FGt(FDiv(FAbs(FSub(v, expected_diameter)), expected_diameter),
                    Flt(1, -1))
             THEN Raise
             ELSE v
           : expected_diameter \in
                 {FMul(FromInt(2),
                       FCbrt(FDiv(FMul(FromInt(3), mass),
                                  FMul(FMul(FromInt(4), FPi), density))))} })
    ELSE v

\* the constraints with ge=0 in place of gt=0
AsteroidFieldsOk_lax(p) ==
    /\ FGe(p.mass, FZero)
    /\ FGe(p.diameter, FZero)
    /\ FGe(p.velocity, FZero)
    /\ p.impact_angle >= 0 /\ p.impact_angle <= 90
    /\ p.composition \in AsteroidComposition
    /\ (IsFloat(p.density) => FGe(p.density, FZero))
    /\ (IsFloat(p.porosity) => FGe(p.porosity, FZero) /\ FLe(p.porosity, Flt(1, 0)))
    /\ (IsFloat(p.strength) => FGe(p.strength, FZero))

\* the Field(...) constraints of Asteroid: gt=0, ge=0, le=90, le=1
AsteroidFieldsOk(p) ==
    /\ FGt(p.mass, FZero)
    /\ FGt(p.diameter, FZero)
    /\ FGt(p.velocity, FZero)
    /\ p.impact_angle >= 0 /\ p.impact_angle <= 90
    /\ p.composition \in AsteroidComposition
    /\ (IsFloat(p.density) => FGt(p.density, FZero))
    /\ (IsFloat(p.porosity) => FGe(p.porosity, FZero) /\ FLe(p.porosity, Flt(1, 0)))
    /\ (IsFloat(p.strength) => FGt(p.strength, FZero))

\* Field validation of the model: a field the caller did not supply takes its
\* default and no validator runs on it (the validators are declared without
\* always=True); a supplied density, None included, goes through set_density.
\* validate_diameter runs when diameter is validated, second in field order,
\* so values holds mass only.
AsteroidModel(p, with_diameter_validator) ==
    IF ~AsteroidFieldsOk(p) THEN Raise
    ELSE IF with_diameter_validator /\ validate_diameter(p.diameter, p.mass, NoneV) = Raise
    THEN Raise
    ELSE [mass         |-> p.mass,
          diameter     |-> p.diameter,
          velocity     |-> p.velocity,
          impact_angle |-> p.impact_angle,
          composition  |-> p.composition,
          density      |-> IF p.density = Absent THEN NoneV
                           ELSE set_density(p.density, p.composition),
          porosity     |-> IF p.porosity = Absent THEN FZero ELSE p.porosity,
          strength     |-> IF p.strength = Absent THEN NoneV ELSE p.strength]

\* app.models.impact.Asteroid, the asteroid of a SimulationRequest
Asteroid(p) == AsteroidModel(p, FALSE)

\* app.models.asteroid.AsteroidCreate (an Asteroid with validate_diameter)
AsteroidCreate(p) == AsteroidModel(p, TRUE)

\* Asteroid.kinetic_energy
kinetic_energy(a) == FMul(FMul(Flt(5, -1), a.mass), FMul(a.velocity, a.velocity))

\* Asteroid.kinetic_energy_megatons
kinetic_energy_megatons(a) == FDiv(kinetic_energy(a), Flt(4184, 12))

\* the Field(...) constraints of ImpactLocation
LocationFieldsOk(p) ==
    /\ p.latitude >= -90 /\ p.latitude <= 90
    /\ p.longitude >= -180 /\ p.longitude <= 180
    /\ p.terrain_type \in TerrainType
    /\ (IsFloat(p.water_depth) => FGe(p.water_depth, FZero))
    /\ FGe(p.population_density, FZero)
    /\ FGe(p.infrastructure_density, FZero)
    /\ FLe(p.infrastructure_density, Flt(1, 0))

ImpactLocation(p) ==
    IF ~LocationFieldsOk(p) THEN Raise
    ELSE [latitude               |-> p.latitude,
          longitude              |-> p.longitude,
          terrain_type           |-> p.terrain_type,
          water_depth            |-> IF p.water_depth = Absent THEN NoneV
                                     ELSE p.water_depth,
          population_density     |-> p.population_density,
          infrastructure_density |-> p.infrastructure_density]

(***************************************************************************)
(* app/physics/impact_calculator.py: ImpactCalculator                      *)
(***************************************************************************)
\* ImpactCalculator.__init__: the fields of the shared instance
ImpactCalculatorInit ==
    [atmospheric_density      |-> Flt(1225, -3),
     atmospheric_scale_height |-> Flt(8000, 0),
     material_density         |-> [c \in AsteroidComposition |->
                                      IF c = "iron" THEN Flt(7800, 0)
                                      ELSE IF c = "stony" THEN Flt(3000, 0)
                                      ELSE IF c = "carbonaceous" THEN Flt(2000, 0)
                                      ELSE Flt(4000, 0)]]

\* a kinetic energy that leaves the mass out: with it the impact results no
\* longer grow with the mass
calculate_kinetic_energy_massless(asteroid) ==
    FMul(Flt(5, -1), FMul(asteroid.velocity, asteroid.velocity))

calculate_kinetic_energy(asteroid) ==
    FMul(FMul(Flt(5, -1), asteroid.mass), FMul(asteroid.velocity, asteroid.velocity))

\* ke_mt = self.calculate_kinetic_energy(asteroid) / (4.184e15)
KeMt(asteroid) == FDiv(calculate_kinetic_energy(asteroid), Flt(4184, 12))

\* the default altitude of calculate_atmospheric_entry_effects
EntryAltitude == Flt(100000, 0)

calculate_atmospheric_entry_effects(self, asteroid) ==
    The({ The({ The({ The({ The({
        IF deceleration = Raise THEN Raise
        ELSE [drag_force          |-> drag_force,
              deceleration        |-> deceleration,
              energy_lost         |-> energy_lost,
              atmospheric_density |-> rho_atm]
      : deceleration \in {FDiv(drag_force, asteroid.mass)},
        energy_lost \in {FMul(drag_force, altitude)} })
      : drag_force \in
            {FMul(FMul(FMul(FMul(Flt(5, -1), rho_atm),
                            FMul(asteroid.velocity, asteroid.velocity)),
                       drag_coefficient),
                  cross_sectional_area)} })
      : cross_sectional_area \in {FMul(FPi, FMul(radius, radius))} })
      : rho_atm \in {FMul(self.atmospheric_density,
                          FExp(FDiv(FNeg(altitude), self.atmospheric_scale_height)))},
        drag_coefficient \in {Flt(47, -2)},
        radius \in {FDiv(asteroid.diameter, FromInt(2))} })
      : altitude \in {EntryAltitude} })

\* a crater model that reads the density of the asteroid's material, which
\* the method looks up and then leaves unused
CraterTargetDensity_material(self, asteroid) ==
    self.material_density[asteroid.composition]

\* target_density = 2700  # kg/m^3 (average Earth crust)
CraterTargetDensity(self, asteroid) == Flt(2700, 0)

\* a crater whose volume is computed after the ocean adjustment
calculate_crater_formation_adjusted(self, asteroid, location) ==
    The({ The({ The({
        [crater_diameter |-> crater_diameter,
         crater_depth    |-> crater_depth,
         crater_volume   |->
             FMul(FMul(FDiv(FPi, FromInt(6)), FMul(crater_diameter, crater_diameter)),
                  crater_depth)]
      : crater_diameter \in {IF location.terrain_type = "ocean"
                             THEN FMul(land_diameter, Flt(12, -1))
                             ELSE land_diameter},
        crater_depth \in {IF location.terrain_type = "ocean"
                          THEN FMul(FDiv(land_diameter, Flt(50, -1)), Flt(8, -1))
                          ELSE FDiv(land_diameter, Flt(50, -1))} })
      : land_diameter \in
            {FMul(FMul(Flt(125, -2),
                       FCbrt(FDiv(FMul(ke_mt, Flt(4184, 12)), target_density))),
                  FCbrt(sin_angle))} })
      : ke_mt \in {KeMt(asteroid)},
        target_density \in {CraterTargetDensity(self, asteroid)},
        sin_angle \in {FSinDeg(asteroid.impact_angle)} })

calculate_crater_formation(self, asteroid, location) ==
    The({ The({ The({ The({
        IF location.terrain_type = "ocean"
        THEN [crater_diameter |-> FMul(crater_diameter, Flt(12, -1)),
              crater_depth    |-> FMul(crater_depth, Flt(8, -1)),
              crater_volume   |-> crater_volume]
        ELSE [crater_diameter |-> crater_diameter,
              crater_depth    |-> crater_depth,
              crater_volume   |-> crater_volume]
      : crater_volume \in
            {FMul(FMul(FDiv(FPi, FromInt(6)), FMul(crater_diameter, crater_diameter)),
                  crater_depth)} })
      : crater_depth \in {FDiv(crater_diameter, Flt(50, -1))} })
      : crater_diameter \in
            {FMul(FMul(Flt(125, -2),
                       FCbrt(FDiv(FMul(ke_mt, Flt(4184, 12)), target_density))),
                  FCbrt(sin_angle))} })
      : ke_mt \in {KeMt(asteroid)},
        target_density \in {CraterTargetDensity(self, asteroid)},
        sin_angle \in {FSinDeg(asteroid.impact_angle)} })

\* blast effects whose thermal radius is half the blast radius
calculate_blast_effects_cool(self, asteroid, crater_diameter) ==
    The({ The({ The({
        IF log_e = Raise THEN Raise
        ELSE [blast_radius      |-> blast_radius,
              thermal_radius    |-> thermal_radius,
              fireball_radius   |-> fireball_radius,
              seismic_magnitude |-> FAdd(FMul(Flt(67, -2), log_e), Flt(44, -1))]
      : thermal_radius \in {FMul(blast_radius, Flt(5, -1))} })
      : blast_radius \in {FMul(FMul(Flt(10, -1), FCbrt(ke_mt)), FromInt(1000))},
        fireball_radius \in {FMul(FMul(Flt(1, -1), FCbrt(ke_mt)), FromInt(1000))},
        log_e \in {FLog10(FMul(ke_mt, Flt(4184, 12)))} })
      : ke_mt \in {KeMt(asteroid)} })

calculate_blast_effects(self, asteroid, crater_diameter) ==
    The({ The({ The({
        IF log_e = Raise THEN Raise
        ELSE [blast_radius      |-> blast_radius,
              thermal_radius    |-> thermal_radius,
              fireball_radius   |-> fireball_radius,
              seismic_magnitude |-> FAdd(FMul(Flt(67, -2), log_e), Flt(44, -1))]
      : thermal_radius \in {FMul(blast_radius, Flt(15, -1))} })
      : blast_radius \in {FMul(FMul(Flt(10, -1), FCbrt(ke_mt)), FromInt(1000))},
        fireball_radius \in {FMul(FMul(Flt(1, -1), FCbrt(ke_mt)), FromInt(1000))},
        log_e \in {FLog10(FMul(ke_mt, Flt(4184, 12)))} })
      : ke_mt \in {KeMt(asteroid)} })

\* water_depth = location.water_depth or 1000: None and 0.0 are both falsy
TsunamiWaterDepth(location) ==
    IF location.water_depth = NoneV \/ location.water_depth.m = 0
    THEN FromInt(1000)
    ELSE location.water_depth

calculate_tsunami_effects(self, asteroid, location, crater_diameter) ==
    IF location.terrain_type # "ocean"
    THEN [tsunami_height |-> FZero, tsunami_radius |-> FZero]
    ELSE The({ The({
             IF depth_ratio = Raise THEN Raise
             ELSE [tsunami_height |->
                       FMul(FMul(Flt(5, -1),
                                 FRoot4(FDiv(FMul(ke_mt, Flt(4184, 12)), water_density))),
                            FSqrt(depth_ratio)),
                   tsunami_radius |-> FMul(FromInt(1000), FCbrt(ke_mt))]
           : depth_ratio \in {FDiv(water_depth, crater_diameter)} })
           : ke_mt \in {KeMt(asteroid)},
             water_depth \in {TsunamiWaterDepth(location)},
             water_density \in {FromInt(1000)} })

\* the rule with the magnitude 6.0 itself counted as seismic
calculate_evacuation_radius_inclusive(blast_radius, thermal_radius, seismic_magnitude) ==
    The({ The({
        FMul(with_seismic, Flt(12, -1))
      : with_seismic \in {IF FGe(seismic_magnitude, Flt(60, -1))
                          THEN FMul(base, Flt(15, -1))
                          ELSE base} })
      : base \in {FMax(blast_radius, thermal_radius)} })

calculate_evacuation_radius(blast_radius, thermal_radius, seismic_magnitude) ==
    The({ The({
        FMul(with_seismic, Flt(12, -1))
      : with_seismic \in {IF FGt(seismic_magnitude, Flt(60, -1))
                          THEN FMul(base, Flt(15, -1))
                          ELSE base} })
      : base \in {FMax(blast_radius, thermal_radius)} })

\* the stages in the order of the method body; an exception raised by a stage
\* leaves the method at once
calculate_impact_result(self, asteroid, location) ==
    The({ The({ The({ The({
        IF entry_effects = Raise THEN Raise
        ELSE IF blast_data = Raise THEN Raise
        ELSE IF tsunami_data = Raise THEN Raise
        ELSE [crater_diameter     |-> crater_data.crater_diameter,
              crater_depth        |-> crater_data.crater_depth,
              crater_volume       |-> crater_data.crater_volume,
              blast_radius        |-> blast_data.blast_radius,
              thermal_radius      |-> blast_data.thermal_radius,
              seismic_magnitude   |-> blast_data.seismic_magnitude,
              tsunami_height      |-> tsunami_data.tsunami_height,
              fireball_radius     |-> blast_data.fireball_radius,
              evacuation_radius   |-> evacuation_radius,
              affected_area       |-> FMul(FPi, FMul(km, km)),
              atmospheric_effects |-> entry_effects]
      : km \in {FDiv(evacuation_radius, FromInt(1000))} })
      : evacuation_radius \in
            {IF blast_data = Raise THEN Raise
             ELSE calculate_evacuation_radius(blast_data.blast_radius,
                                              blast_data.thermal_radius,
                                              blast_data.seismic_magnitude)} })
      : blast_data \in
            {calculate_blast_effects(self, asteroid, crater_data.crater_diameter)},
        tsunami_data \in
            {calculate_tsunami_effects(self, asteroid, location,
                                       crater_data.crater_diameter)} })
      : entry_effects \in {calculate_atmospheric_entry_effects(self, asteroid)},
        crater_data \in {calculate_crater_formation(self, asteroid, location)} })

(***************************************************************************)
(* app/physics/damage_assessor.py: DamageAssessor                          *)
(***************************************************************************)
\* a lookup that never finds the terrain type among the keys
casualty_scaling_default(terrain_type) == Flt(5, -1)

\* self.casualty_scaling.get(location.terrain_type, 0.5)
casualty_scaling(terrain_type) ==
    CASE terrain_type = "urban"    -> Flt(10, -1)
      [] terrain_type = "rural"    -> Flt(3, -1)
      [] terrain_type = "mountain" -> Flt(1, -1)
      [] terrain_type = "desert"   -> Flt(5, -2)
      [] terrain_type = "forest"   -> Flt(2, -1)
      [] terrain_type = "ice"      -> Flt(1, -1)
      [] terrain_type = "ocean"    -> FZero
      [] OTHER                     -> Flt(5, -1)

\* self.infrastructure_scaling.get(location.terrain_type, 0.5)
infrastructure_scaling(terrain_type) ==
    CASE terrain_type = "urban"    -> Flt(10, -1)
      [] terrain_type = "rural"    -> Flt(4, -1)
      [] terrain_type = "mountain" -> Flt(2, -1)
      [] terrain_type = "desert"   -> Flt(1, -1)
      [] terrain_type = "forest"   -> Flt(3, -1)
      [] terrain_type = "ice"      -> Flt(1, -1)
      [] terrain_type = "ocean"    -> FZero
      [] OTHER                     -> Flt(5, -1)

\* terrain_impact.get(location.terrain_type, 1.0)
terrain_impact(terrain_type) ==
    CASE terrain_type = "urban"    -> Flt(8, -1)
      [] terrain_type = "rural"    -> Flt(10, -1)
      [] terrain_type = "mountain" -> Flt(12, -1)
      [] terrain_type = "desert"   -> Flt(6, -1)
      [] terrain_type = "forest"   -> Flt(15, -1)
      [] terrain_type = "ice"      -> Flt(20, -1)
      [] terrain_type = "ocean"    -> Flt(10, -1)
      [] OTHER                     -> Flt(10, -1)

\* calculate_human_casualties with the injuries taken from the casualties
\* before the terrain factor
calculate_human_casualties_unscaled(impact_result, location) ==
    The({ The({ The({ The({ The({ The({ The({ The({
        [estimated_casualties |-> total_casualties,
         injured_count        |-> (blast_casualties + thermal_casualties) * 3,
         displaced_count      |-> total_casualties * 10]
      : total_casualties \in
            {TruncIntMul(blast_casualties + thermal_casualties, terrain_factor)} })
      : terrain_factor \in {casualty_scaling(location.terrain_type)} })
      : thermal_casualties \in
            {Trunc(FMul(FSub(population_in_thermal, population_in_blast), Flt(3, -1)))} })
      : blast_casualties \in {Trunc(FMul(population_in_blast, Flt(9, -1)))} })
      : population_in_thermal \in
            {FMul(FMul(location.population_density, FPi),
                  FMul(thermal_radius_km, thermal_radius_km))} })
      : thermal_radius_km \in {FDiv(impact_result.thermal_radius, FromInt(1000))} })
      : population_in_blast \in
            {FMul(FMul(location.population_density, FPi),
                  FMul(blast_radius_km, blast_radius_km))} })
      : blast_radius_km \in {FDiv(impact_result.blast_radius, FromInt(1000))} })

\* DamageAssessor.calculate_human_casualties
calculate_human_casualties(impact_result, location) ==
    The({ The({ The({ The({ The({ The({ The({ The({
        [estimated_casualties |-> total_casualties,
         injured_count        |-> total_casualties * 3,
         displaced_count      |-> total_casualties * 10]
      : total_casualties \in
            {TruncIntMul(blast_casualties + thermal_casualties, terrain_factor)} })
      : terrain_factor \in {casualty_scaling(location.terrain_type)} })
      : thermal_casualties \in
            {Trunc(FMul(FSub(population_in_thermal, population_in_blast), Flt(3, -1)))} })
      : blast_casualties \in {Trunc(FMul(population_in_blast, Flt(9, -1)))} })
      : population_in_thermal \in
            {FMul(FMul(location.population_density, FPi),
                  FMul(thermal_radius_km, thermal_radius_km))} })
      : thermal_radius_km \in {FDiv(impact_result.thermal_radius, FromInt(1000))} })
      : population_in_blast \in
            {FMul(FMul(location.population_density, FPi),
                  FMul(blast_radius_km, blast_radius_km))} })
      : blast_radius_km \in {FDiv(impact_result.blast_radius, FromInt(1000))} })

\* the costs are Python ints (buildings * 500000 + buildings * 100000); they
\* are held at float precision here
calculate_infrastructure_damage(impact_result, location) ==
    The({ The({ The({ The({ The({ The({
        [infrastructure_damage_cost |->
             FAdd(FMul(FromInt(buildings_destroyed), Flt(500000, 0)),
                  FMul(FromInt(buildings_damaged), Flt(100000, 0))),
         buildings_destroyed |-> buildings_destroyed,
         buildings_damaged   |-> buildings_damaged]
      : buildings_damaged \in {TruncIntMul(buildings_affected, Flt(7, -1))} })
      : buildings_destroyed \in {TruncIntMul(buildings_affected, Flt(3, -1))} })
      : buildings_affected \in
            {Trunc(FMul(FMul(affected_area, FromInt(1000)), infrastructure_density))} })
      : infrastructure_density \in {FMul(location.infrastructure_density, terrain_factor)} })
      : terrain_factor \in {infrastructure_scaling(location.terrain_type)} })
      : affected_area \in {impact_result.affected_area} })

calculate_environmental_impact(impact_result, location) ==
    The({ The({ The({
        [environmental_impact_score |-> FMin(Flt(100, -1), environmental_impact_score),
         ecosystem_affected_area    |-> FMul(impact_result.affected_area, Flt(15, -1)),
         atmospheric_effects        |->
             [dust_cloud_radius    |-> FMul(impact_result.affected_area, FromInt(10)),
              temperature_drop     |->
                  FMin(Flt(50, -1), FSub(impact_result.seismic_magnitude, Flt(40, -1))),
              precipitation_change |->
                  FMul(Flt(1, -1), FSub(impact_result.seismic_magnitude, Flt(40, -1)))]]
      : environmental_impact_score \in {FMul(base_score, terrain_factor)} })
      : terrain_factor \in {terrain_impact(location.terrain_type)} })
      : base_score \in
            {FMin(Flt(100, -1), FSub(impact_result.seismic_magnitude, Flt(40, -1)))} })

calculate_economic_impact(human_damage, infrastructure_damage, environmental_impact) ==
    The({ The({ The({ The({ The({
        [total_economic_cost |->
             FAdd(FAdd(FAdd(FAdd(casualty_cost, injury_cost), displacement_cost),
                       infrastructure_cost),
                  environmental_cost),
         recovery_time_years |->
             FMin(Flt(500, -1),
                  FMul(environmental_impact.environmental_impact_score, Flt(50, -1))),
         casualty_cost       |-> casualty_cost,
         injury_cost         |-> injury_cost,
         displacement_cost   |-> displacement_cost,
         infrastructure_cost |-> infrastructure_cost,
         environmental_cost  |-> environmental_cost]
      : environmental_cost \in
            {FMul(environmental_impact.environmental_impact_score, Flt(1, 9))} })
      : infrastructure_cost \in {infrastructure_damage.infrastructure_damage_cost} })
      : displacement_cost \in {FMul(FromInt(human_damage.displaced_count), Flt(5, 4))} })
      : injury_cost \in {FMul(FromInt(human_damage.injured_count), Flt(1, 5))} })
      : casualty_cost \in {FMul(FromInt(human_damage.estimated_casualties), Flt(1, 6))} })

\* {**human_damage, **infrastructure_damage, **environmental_impact, **economic_impact}
assess_damage(asteroid, location, impact_result) ==
    The({ The({ The({ The({
        [estimated_casualties       |-> human_damage.estimated_casualties,
         injured_count              |-> human_damage.injured_count,
         displaced_count            |-> human_damage.displaced_count,
         infrastructure_damage_cost |-> infrastructure_damage.infrastructure_damage_cost,
         buildings_destroyed        |-> infrastructure_damage.buildings_destroyed,
         buildings_damaged          |-> infrastructure_damage.buildings_damaged,
         environmental_impact_score |-> environmental_impact.environmental_impact_score,
         ecosystem_affected_area    |-> environmental_impact.ecosystem_affected_area,
         atmospheric_effects        |-> environmental_impact.atmospheric_effects,
         total_economic_cost        |-> economic_impact.total_economic_cost,
         recovery_time_years        |-> economic_impact.recovery_time_years,
         casualty_cost              |-> economic_impact.casualty_cost,
         injury_cost                |-> economic_impact.injury_cost,
         displacement_cost          |-> economic_impact.displacement_cost,
         infrastructure_cost        |-> economic_impact.infrastructure_cost,
         environmental_cost         |-> economic_impact.environmental_cost]
      : economic_impact \in
            {calculate_economic_impact(human_damage, infrastructure_damage,
                                       environmental_impact)} })
      : environmental_impact \in {calculate_environmental_impact(impact_result, location)} })
      : infrastructure_damage \in {calculate_infrastructure_damage(impact_result, location)} })
      : human_damage \in {calculate_human_casualties(impact_result, location)} })

(***************************************************************************)
(* app/ml/enhancer.py: DamageMLEnhancer                                    *)
(***************************************************************************)
\* enhance with the urban casualties rounded to the nearest integer
enhance_rounded(features, damage) ==
    The({ The({ The({ The({ The({ The({ The({
        [damage EXCEPT !.injured_count = injured_count,
                       !.estimated_casualties = estimated_casualties,
                       !.displaced_count = displaced_count,
                       !.total_economic_cost = FAdd(FAdd(human_delta, infra), env)]
      : env \in {FMul(damage.environmental_impact_score, Flt(1, 9))} })
      : infra \in {damage.infrastructure_damage_cost} })
      : human_delta \in
            {FAdd(FAdd(FMul(FromInt(estimated_casualties), Flt(1, 6)),
                       FMul(FromInt(injured_count), Flt(1, 5))),
                  FMul(FromInt(displaced_count), Flt(5, 4)))} })
      : displaced_count \in
            {IF FGt(features.energy_megatons, FromInt(100))
             THEN TruncIntMul(damage.displaced_count, Flt(125, -2))
             ELSE damage.displaced_count} })
      : estimated_casualties \in
            {IF features.terrain_type = "urban"
             THEN (9 * damage.estimated_casualties + 5) \div 10
             ELSE damage.estimated_casualties} })
      : injured_count \in {TruncIntMul(damage.injured_count, injury_multiplier)} })
      : injury_multiplier \in
            {FAdd(Flt(10, -1),
                  FMin(Flt(10, -1), FDiv(features.population_density, Flt(20000, 0))))} })

\* an enhancer that raises the displacement from 100 megatons on
enhance_inclusive(features, damage) ==
    The({ The({ The({ The({ The({ The({ The({
        [damage EXCEPT !.injured_count = injured_count,
                       !.estimated_casualties = estimated_casualties,
                       !.displaced_count = displaced_count,
                       !.total_economic_cost = FAdd(FAdd(human_delta, infra), env)]
      : env \in {FMul(damage.environmental_impact_score, Flt(1, 9))} })
      : infra \in {damage.infrastructure_damage_cost} })
      : human_delta \in
            {FAdd(FAdd(FMul(FromInt(estimated_casualties), Flt(1, 6)),
                       FMul(FromInt(injured_count), Flt(1, 5))),
                  FMul(FromInt(displaced_count), Flt(5, 4)))} })
      : displaced_count \in
            {IF FGe(features.energy_megatons, FromInt(100))
             THEN TruncIntMul(damage.displaced_count, Flt(125, -2))
             ELSE damage.displaced_count} })
      : estimated_casualties \in
            {IF features.terrain_type = "urban"
             THEN The({IF c < 0 THEN 0 ELSE c :
                       c \in {TruncIntMul(damage.estimated_casualties, Flt(9, -1))}})
             ELSE damage.estimated_casualties} })
      : injured_count \in {TruncIntMul(damage.injured_count, injury_multiplier)} })
      : injury_multiplier \in
            {FAdd(Flt(10, -1),
                  FMin(Flt(10, -1), FDiv(features.population_density, Flt(20000, 0))))} })

enhance(features, damage) ==
    The({ The({ The({ The({ The({ The({ The({
        [damage EXCEPT !.injured_count = injured_count,
                       !.estimated_casualties = estimated_casualties,
                       !.displaced_count = displaced_count,
                       !.total_economic_cost = FAdd(FAdd(human_delta, infra), env)]
      : env \in {FMul(damage.environmental_impact_score, Flt(1, 9))} })
      : infra \in {damage.infrastructure_damage_cost} })
      : human_delta \in
            {FAdd(FAdd(FMul(FromInt(estimated_casualties), Flt(1, 6)),
                       FMul(FromInt(injured_count), Flt(1, 5))),
                  FMul(FromInt(displaced_count), Flt(5, 4)))} })
      : displaced_count \in
            {IF FGt(features.energy_megatons, FromInt(100))
             THEN TruncIntMul(damage.displaced_count, Flt(125, -2))
             ELSE damage.displaced_count} })
      : estimated_casualties \in
            {IF features.terrain_type = "urban"
             THEN The({IF c < 0 THEN 0 ELSE c :
                       c \in {TruncIntMul(damage.estimated_casualties, Flt(9, -1))}})
             ELSE damage.estimated_casualties} })
      : injured_count \in {TruncIntMul(damage.injured_count, injury_multiplier)} })
      : injury_multiplier \in
            {FAdd(Flt(10, -1),
                  FMin(Flt(10, -1), FDiv(features.population_density, Flt(20000, 0))))} })

\* an enhancer that assigns to the dict it was given
DamageAfterEnhance_inplace(features, damage) == enhance(features, damage)

\* the dict passed as damage, after the call: adjusted = dict(damage) is a copy
\* and every assignment of the method goes to the copy
DamageAfterEnhance(features, damage) == damage

\* the Field(...) constraints of DamageAssessment (app/models/impact.py)
DamageAssessmentFieldsOk(d) ==
    /\ d.estimated_casualties >= 0
    /\ d.injured_count >= 0
    /\ d.displaced_count >= 0
    /\ FGe(d.infrastructure_damage_cost, FZero)
    /\ d.buildings_destroyed >= 0
    /\ d.buildings_damaged >= 0
    /\ FGe(d.environmental_impact_score, FZero)
    /\ FLe(d.environmental_impact_score, Flt(10, 0))
    /\ FGe(d.ecosystem_affected_area, FZero)
    /\ FGe(d.total_economic_cost, FZero)
    /\ FGe(d.recovery_time_years, FZero)

\* the Field(...) constraints of ImpactResult (app/models/impact.py)
ImpactResultFieldsOk(d) ==
    /\ FGe(d.crater_diameter, FZero)
    /\ FGe(d.crater_depth, FZero)
    /\ FGe(d.crater_volume, FZero)
    /\ FGe(d.blast_radius, FZero)
    /\ FGe(d.thermal_radius, FZero)
    /\ FGe(d.tsunami_height, FZero)
    /\ FGe(d.fireball_radius, FZero)
    /\ FGe(d.evacuation_radius, FZero)
    /\ FGe(d.affected_area, FZero)

(***************************************************************************)
(* app/services/geo_enrichment.py and app/nasa/client.py                   *)
(***************************************************************************)
\* NASAClient.get_population_data: the density heuristic by latitude
get_population_data(lat) ==
    IF Abs(lat) < 30 THEN Flt(200, 0)
    ELSE IF Abs(lat) < 50 THEN Flt(120, 0)
    ELSE Flt(50, 0)

\* GeoEnrichmentService.enrich_location: the terrain type of a validated
\* location is always set, so it is kept
enrich_location(location) ==
    [location EXCEPT
        !.population_density = get_population_data(location.latitude),
        !.water_depth = IF location.terrain_type = "ocean" /\ location.water_depth = NoneV
                        THEN Flt(3000, 0)
                        ELSE location.water_depth]

\* time_points = 50 in NASAClient.calculate_trajectory
TrajectoryTimePoints == 50

(***************************************************************************)
(* app/api/v1/endpoints/simulation.py: POST /simulate                      *)
(***************************************************************************)
\* SimulationRequest(**body): the request body as FastAPI validates it
SimulationRequest(b) ==
    The({ The({
        IF asteroid = Raise \/ impact_location = Raise \/ FLt(b.dv_mps, FZero)
        THEN Raise
        ELSE [asteroid             |-> asteroid,
              impact_location      |-> impact_location,
              use_nasa_data        |-> b.use_nasa_data,
              use_ml               |-> b.use_ml,
              dv_mps               |-> b.dv_mps,
              calculate_trajectory |-> b.calculate_trajectory,
              include_zones        |-> b.include_zones]
      : impact_location \in {ImpactLocation(b.impact_location)} })
      : asteroid \in {Asteroid(b.asteroid)} })

\* the mitigation block with the success probability taken against the
\* velocity as requested
ApplyMitigation_requested(request) ==
    IF FGt(request.dv_mps, FZero)
    THEN The({ The({
             IF asteroid_input = Raise THEN Raise
             ELSE The({ The({
                      IF success_prob = Raise \/ energy_reduction = Raise THEN Raise
                      ELSE
                      [asteroid_input    |-> asteroid_input,
                       mitigation_result |->
                           [method              |-> "kinetic_impactor",
                            dv_applied          |-> request.dv_mps,
                            success_probability |-> success_prob,
                            energy_reduction    |-> energy_reduction]]
                    : energy_reduction \in
                          {FMul(FDiv(FSub(kinetic_energy(request.asteroid),
                                          kinetic_energy(asteroid_input)),
                                     kinetic_energy(request.asteroid)),
                                FromInt(100))} })
                    : success_prob \in
                          {FMin(Flt(10, -1),
                                FDiv(request.dv_mps,
                                     FMul(request.asteroid.velocity, Flt(1, -1))))} })
           : asteroid_input \in
                 {AsteroidCreate([mass         |-> request.asteroid.mass,
                                  diameter     |-> request.asteroid.diameter,
                                  velocity     |-> adjusted_velocity,
                                  impact_angle |-> request.asteroid.impact_angle,
                                  composition  |-> request.asteroid.composition,
                                  density      |-> request.asteroid.density,
                                  porosity     |-> request.asteroid.porosity,
                                  strength     |-> request.asteroid.strength])} })
           : adjusted_velocity \in
                 {FMax(FZero, FSub(request.asteroid.velocity, request.dv_mps))} })
    ELSE [asteroid_input |-> request.asteroid, mitigation_result |-> NoneV]

\* the "Apply mitigation deflection if specified" block: the asteroid to
\* simulate and the MitigationResult, or the exception the block raises
ApplyMitigation(request) ==
    IF FGt(request.dv_mps, FZero)
    THEN The({ The({
             IF asteroid_input = Raise THEN Raise
             ELSE The({ The({
                      IF success_prob = Raise \/ energy_reduction = Raise THEN Raise
                      ELSE
                      [asteroid_input    |-> asteroid_input,
                       mitigation_result |->
                           [method              |-> "kinetic_impactor",
                            dv_applied          |-> request.dv_mps,
                            success_probability |-> success_prob,
                            energy_reduction    |-> energy_reduction]]
                    : energy_reduction \in
                          {FMul(FDiv(FSub(kinetic_energy(request.asteroid),
                                          kinetic_energy(asteroid_input)),
                                     kinetic_energy(request.asteroid)),
                                FromInt(100))} })
                    : success_prob \in
                          {FMin(Flt(10, -1),
                                FDiv(request.dv_mps,
                                     FMul(asteroid_input.velocity, Flt(1, -1))))} })
           : asteroid_input \in
                 {AsteroidCreate([mass         |-> request.asteroid.mass,
                                  diameter     |-> request.asteroid.diameter,
                                  velocity     |-> adjusted_velocity,
                                  impact_angle |-> request.asteroid.impact_angle,
                                  composition  |-> request.asteroid.composition,
                                  density      |-> request.asteroid.density,
                                  porosity     |-> request.asteroid.porosity,
                                  strength     |-> request.asteroid.strength])} })
           : adjusted_velocity \in
                 {FMax(FZero, FSub(request.asteroid.velocity, request.dv_mps))} })
    ELSE [asteroid_input |-> request.asteroid, mitigation_result |-> NoneV]

\* an ImpactZone whose affected_population is the density integrated over the
\* disc of the zone
ImpactZone_area(zone_type, radius, intensity, location) ==
    [zone_type           |-> zone_type,
     radius              |-> radius,
     intensity           |-> intensity,
     affected_population |->
         Trunc(FMul(FMul(FPi, FMul(FMul(radius, Flt(1, -3)), FMul(radius, Flt(1, -3)))),
                    location.population_density))]

\* ImpactZone(...) of _calculate_impact_zones
ImpactZone(zone_type, radius, intensity, location) ==
    [zone_type           |-> zone_type,
     radius              |-> radius,
     intensity           |-> intensity,
     affected_population |->
         Trunc(FMul(FMul(radius, Flt(1, -3)), location.population_density))]

_calculate_impact_zones(asteroid, location, impact_data) ==
    (IF location.terrain_type = "ocean" /\ FGt(impact_data.tsunami_height, FromInt(1))
     THEN <<ImpactZone("tsunami", FMul(impact_data.tsunami_height, FromInt(1000)),
                       FMin(FromInt(10), impact_data.tsunami_height), location)>>
     ELSE <<>>)
    \o <<ImpactZone("seismic", FMul(impact_data.blast_radius, FromInt(2)),
                    FMin(FromInt(10), impact_data.seismic_magnitude), location),
         ImpactZone("thermal", impact_data.thermal_radius, Flt(80, -1), location),
         ImpactZone("blast", impact_data.blast_radius, Flt(100, -1), location)>>

\* ImpactResult(...): the physics results with the impact zones, validated
ImpactResult(impact_result_data, impact_zones) ==
    IF ~ImpactResultFieldsOk(impact_result_data)
       \/ \E k \in 1..Len(impact_zones) :
              \/ FLt(impact_zones[k].radius, FZero)
              \/ impact_zones[k].affected_population < 0
    THEN Raise
    ELSE [crater_diameter     |-> impact_result_data.crater_diameter,
          crater_depth        |-> impact_result_data.crater_depth,
          crater_volume       |-> impact_result_data.crater_volume,
          blast_radius        |-> impact_result_data.blast_radius,
          thermal_radius      |-> impact_result_data.thermal_radius,
          seismic_magnitude   |-> impact_result_data.seismic_magnitude,
          tsunami_height      |-> impact_result_data.tsunami_height,
          fireball_radius     |-> impact_result_data.fireball_radius,
          atmospheric_effects |-> impact_result_data.atmospheric_effects,
          impact_zones        |-> impact_zones,
          evacuation_radius   |-> impact_result_data.evacuation_radius,
          affected_area       |-> impact_result_data.affected_area]

\* DamageAssessment(**damage_data): the declared fields, validated; the other
\* keys of the dict are ignored
DamageAssessment(damage_data) ==
    IF ~DamageAssessmentFieldsOk(damage_data) THEN Raise
    ELSE [estimated_casualties       |-> damage_data.estimated_casualties,
          injured_count              |-> damage_data.injured_count,
          displaced_count            |-> damage_data.displaced_count,
          infrastructure_damage_cost |-> damage_data.infrastructure_damage_cost,
          buildings_destroyed        |-> damage_data.buildings_destroyed,
          buildings_damaged          |-> damage_data.buildings_damaged,
          environmental_impact_score |-> damage_data.environmental_impact_score,
          ecosystem_affected_area    |-> damage_data.ecosystem_affected_area,
          total_economic_cost        |-> damage_data.total_economic_cost,
          recovery_time_years        |-> damage_data.recovery_time_years]

\* the asteroid field of SimulationResponse(...): it is annotated with
\* app.models.impact.Asteroid and the model does not set from_attributes, so it
\* takes request.asteroid, an instance of that class, and refuses the
\* app.models.asteroid.AsteroidCreate instance the mitigation block builds
\* (AsteroidCreate derives from app.models.asteroid.Asteroid, another class)
SimulationResponseAsteroid(request, asteroid_input) ==
    IF FGt(request.dv_mps, FZero) THEN Raise ELSE asteroid_input

\* the status Depends(get_current_user) ends with: HTTPBearer() answers 403
\* when the Authorization header is missing, get_current_user raises 401 when
\* the token does not verify, and the handler is called (0) otherwise
get_current_user(authorization) ==
    CASE authorization = "absent"  -> 403
      [] authorization = "invalid" -> 401
      [] OTHER                     -> 0

\* the stages of calculate_impact_result that are entered, in order; a stage
\* that raises is the last one
ImpactStages(self, asteroid, location) ==
    The({
        IF calculate_atmospheric_entry_effects(self, asteroid) = Raise
        THEN <<"atmospheric_entry">>
        ELSE IF calculate_blast_effects(self, asteroid, crater_data.crater_diameter) = Raise
        THEN <<"atmospheric_entry", "crater", "blast">>
        ELSE IF calculate_tsunami_effects(self, asteroid, location,
                                          crater_data.crater_diameter) = Raise
        THEN <<"atmospheric_entry", "crater", "blast", "tsunami">>
        ELSE <<"atmospheric_entry", "crater", "blast", "tsunami", "evacuation">>
      : crater_data \in {calculate_crater_formation(self, asteroid, location)} })

\* a calculator that keeps the air density of its last call on the instance
InstanceAfterCall_stateful(self, asteroid) ==
    [self EXCEPT !.atmospheric_density = FMul(@, asteroid.velocity)]

\* calculate_impact_result reads the fields of the shared instance and assigns
\* none of them
InstanceAfterCall(self, asteroid) == self

\* a value a stage produced: the stage ran and did not raise
Produced(x) == x # NoneV /\ x # Raise

(***************************************************************************)
(* astroyd-meteor-madness-main/app: the earlier tree of the service, with  *)
(* its own models (app/models/impact.py) and its own POST /simulate        *)
(***************************************************************************)
\* @validator('water_depth') of the earlier ImpactLocation
validate_water_depth(v, terrain_type) ==
    IF terrain_type = "ocean" /\ v = NoneV THEN Raise ELSE v

\* the earlier ImpactLocation: the same fields, and validate_water_depth on a
\* water_depth the caller supplies
ImpactLocationV1(p) ==
    IF p.terrain_type \in TerrainType /\ p.water_depth # Absent
       /\ validate_water_depth(p.water_depth, p.terrain_type) = Raise
    THEN Raise
    ELSE ImpactLocation(p)

\* the earlier SimulationRequest: asteroid is an AsteroidCreate, and there is
\* no calculate_trajectory and no include_zones (keys not declared are ignored)
SimulationRequestV1(b) ==
    The({ The({
        IF asteroid = Raise \/ impact_location = Raise \/ FLt(b.dv_mps, FZero)
        THEN Raise
        ELSE [asteroid        |-> asteroid,
              impact_location |-> impact_location,
              use_nasa_data   |-> b.use_nasa_data,
              use_ml          |-> b.use_ml,
              dv_mps          |-> b.dv_mps]
      : impact_location \in {ImpactLocationV1(b.impact_location)} })
      : asteroid \in {AsteroidCreate(b.asteroid)} })

\* AsteroidResponse(**asteroid_input.dict(), kinetic_energy=...,
\* kinetic_energy_megatons=...): every field is supplied, so the density
\* goes through set_density
AsteroidResponse(a) ==
    The({IF m = Raise THEN Raise
         ELSE [mass                    |-> m.mass,
               diameter                |-> m.diameter,
               velocity                |-> m.velocity,
               impact_angle            |-> m.impact_angle,
               composition             |-> m.composition,
               density                 |-> m.density,
               porosity                |-> m.porosity,
               strength                |-> m.strength,
               kinetic_energy          |-> kinetic_energy(a),
               kinetic_energy_megatons |-> kinetic_energy_megatons(a)] :
         m \in {AsteroidModel(a, TRUE)}})

\* the "Apply simple mitigation deflection" block of the earlier handler
ApplyMitigationV1(request) ==
    IF FGt(request.dv_mps, FZero)
    THEN AsteroidCreate([mass         |-> request.asteroid.mass,
                         diameter     |-> request.asteroid.diameter,
                         velocity     |-> FMax(FZero, FSub(request.asteroid.velocity,
                                                           request.dv_mps)),
                         impact_angle |-> request.asteroid.impact_angle,
                         composition  |-> request.asteroid.composition,
                         density      |-> request.asteroid.density,
                         porosity     |-> request.asteroid.porosity,
                         strength     |-> request.asteroid.strength])
    ELSE request.asteroid

\* ImpactResult(**impact_result_data) of the earlier models: no impact_zones
ImpactResultV1(impact_result_data) ==
    IF ~ImpactResultFieldsOk(impact_result_data) THEN Raise ELSE impact_result_data

(***************************************************************************)
(* The request bodies the clients send                                     *)
(***************************************************************************)
\* the number of requests in flight at once
MaxRequests == 2

Slots == 1..MaxRequests

Masses == {Flt(1, -1), Flt(1, 7), Flt(25, 8)}

Velocities == {Flt(1, 0), Flt(19000, 0)}

ImpactAngles == {0, 45}

\* the fields of an asteroid that describe the body itself; Absent is a key
\* the body does not carry, NoneV is a JSON null
Makeups ==
    {[diameter |-> Flt(20, 0), composition |-> "stony", density |-> Absent,
      porosity |-> Absent, strength |-> Absent],
     [diameter |-> Flt(20, 0), composition |-> "stony", density |-> NoneV,
      porosity |-> Absent, strength |-> Absent],
     [diameter |-> Flt(15, 0), composition |-> "iron", density |-> Flt(5000, 0),
      porosity |-> Flt(2, -1), strength |-> Flt(1, 6)]}

AsteroidBody(mass, velocity, impact_angle, makeup) ==
    [mass         |-> mass,
     diameter     |-> makeup.diameter,
     velocity     |-> velocity,
     impact_angle |-> impact_angle,
     composition  |-> makeup.composition,
     density      |-> makeup.density,
     porosity     |-> makeup.porosity,
     strength     |-> makeup.strength]

AsteroidBodies ==
    {AsteroidBody(m, v, a, k) : m \in Masses, v \in Velocities, a \in ImpactAngles,
                                k \in Makeups}

LocationBody(terrain_type, water_depth) ==
    [latitude               |-> 34,
     longitude              |-> -118,
     terrain_type           |-> terrain_type,
     water_depth            |-> water_depth,
     population_density     |-> Flt(10000, 0),
     infrastructure_density |-> Flt(9, -1)]

\* population densities (people per km^2) next to the 10000 of LocationBody
PopulationDensities == {Flt(2810, 0), Flt(2820, 0)}

LocationBodies ==
    {LocationBody("ocean", w) : w \in {Absent, FZero, Flt(3000, 0)}}
    \cup {LocationBody("urban", Absent)}
    \cup {[LocationBody("urban", Absent) EXCEPT !.population_density = Flt(2810, 0)]}

DeltaVs == {FZero, Flt(1000, 0)}

\* the switches of a request: none set, the defaults of SimulationRequest, all set
OptionSets ==
    {[use_nasa_data |-> FALSE, use_ml |-> FALSE, calculate_trajectory |-> FALSE,
      include_zones |-> FALSE],
     [use_nasa_data |-> FALSE, use_ml |-> FALSE, calculate_trajectory |-> TRUE,
      include_zones |-> TRUE],
     [use_nasa_data |-> TRUE, use_ml |-> TRUE, calculate_trajectory |-> TRUE,
      include_zones |-> TRUE]}

RequestBody(asteroid, impact_location, options, dv_mps) ==
    [asteroid             |-> asteroid,
     impact_location      |-> impact_location,
     use_nasa_data        |-> options.use_nasa_data,
     use_ml               |-> options.use_ml,
     dv_mps               |-> dv_mps,
     calculate_trajectory |-> options.calculate_trajectory,
     include_zones        |-> options.include_zones]

ValidBodies ==
    {RequestBody(a, l, o, d) : a \in AsteroidBodies, l \in LocationBodies,
                               o \in OptionSets, d \in DeltaVs}

\* a body every field of which is valid
BaseBody ==
    RequestBody(AsteroidBody(Flt(1, 7), Flt(19000, 0), 45,
                             [diameter |-> Flt(20, 0), composition |-> "stony",
                              density |-> Absent, porosity |-> Absent,
                              strength |-> Absent]),
                LocationBody("urban", Absent),
                [use_nasa_data |-> FALSE, use_ml |-> FALSE,
                 calculate_trajectory |-> TRUE, include_zones |-> TRUE],
                FZero)

\* bodies with one field outside its constraint
InvalidBodies ==
    {[BaseBody EXCEPT !.asteroid.mass = FZero],
     [BaseBody EXCEPT !.asteroid.diameter = FZero],
     [BaseBody EXCEPT !.asteroid.velocity = Flt(-5, 0)],
     [BaseBody EXCEPT !.asteroid.impact_angle = 91],
     [BaseBody EXCEPT !.asteroid.impact_angle = -1],
     [BaseBody EXCEPT !.asteroid.composition = "ice"],
     [BaseBody EXCEPT !.asteroid.density = FZero],
     [BaseBody EXCEPT !.asteroid.porosity = Flt(15, -1)],
     [BaseBody EXCEPT !.asteroid.strength = Flt(-1, 0)],
     [BaseBody EXCEPT !.impact_location.latitude = 91],
     [BaseBody EXCEPT !.impact_location.longitude = -181],
     [BaseBody EXCEPT !.impact_location.terrain_type = "swamp"],
     [BaseBody EXCEPT !.impact_location.water_depth = Flt(-1, 0)],
     [BaseBody EXCEPT !.impact_location.population_density = Flt(-1, 0)],
     [BaseBody EXCEPT !.impact_location.infrastructure_density = Flt(15, -1)],
     [BaseBody EXCEPT !.dv_mps = Flt(-1, 0)]}

\* deflections of the base body on both sides of velocity / 11 (1727 m/s for
\* 19000 m/s), and a large one
DeflectedBodies ==
    {[BaseBody EXCEPT !.dv_mps = d] : d \in {Flt(1720, 0), Flt(1730, 0), Flt(9500, 0)}}

\* the base body on each terrain type other than urban and ocean
TerrainBodies ==
    {[BaseBody EXCEPT !.impact_location.terrain_type = t] :
        t \in TerrainType \ {"urban", "ocean"}}

\* the bodies sent; the last is the base body where buildings are sparse, so
\* that the number of affected buildings is below 1000
RequestBodies ==
    ValidBodies \cup InvalidBodies \cup DeflectedBodies \cup TerrainBodies
    \cup {[BaseBody EXCEPT !.impact_location.infrastructure_density = Flt(5, -2)]}

\* a further request overlaps the first while the first is one of these: no
\* switch set and no deflection
SharedBodies ==
    {b \in ValidBodies : /\ ~b.use_nasa_data /\ ~b.use_ml
                         /\ ~b.calculate_trajectory /\ ~b.include_zones
                         /\ b.dv_mps = FZero}

\* the bodies of the requests that follow the first: the first body again, or
\* the first body with another mass, another velocity, another makeup or
\* another population density
Variants(b) ==
    IF b \notin SharedBodies THEN {} ELSE
    {[b EXCEPT !.asteroid.mass = m] : m \in Masses}
    \cup {[b EXCEPT !.asteroid.velocity = v] : v \in Velocities}
    \cup {[b EXCEPT !.asteroid = AsteroidBody(b.asteroid.mass, b.asteroid.velocity,
                                              b.asteroid.impact_angle, k)] :
          k \in Makeups}
    \cup {[b EXCEPT !.impact_location.population_density = d] :
          d \in PopulationDensities}

\* the bodies sent to the earlier tree: the two switches it declares are both
\* unset or both set; one ocean body carries "water_depth": null
V1Bodies ==
    {b \in ValidBodies : b.use_ml = b.calculate_trajectory}
    \cup {[BaseBody EXCEPT !.impact_location.terrain_type = "ocean",
                           !.impact_location.water_depth = NoneV]}

\* the bodies a client without credentials posts: valid, no enrichment, with
\* and without the enhancer
AnonymousBodies == {BaseBody, [BaseBody EXCEPT !.use_ml = TRUE]}

\* the requests the earlier tree has in flight at once
MaxRequestsV1 == 1

SlotsV1 == 1..MaxRequestsV1

\* the two trees of the repository that serve POST /simulate: the earlier one
\* (simulation_metadata version "1.0.0") and the current one ("2.0.0")
Deployments == {"v1", "v2"}

(***************************************************************************)
(* The service: requests in flight and the module-level singletons         *)
(***************************************************************************)
VARIABLES
    deployment,          \* the tree that is running
    credentials,         \* the Authorization header each request came with
    pc,                  \* where each request is
    body,                \* the request body as sent
    request,             \* the validated SimulationRequest
    location,            \* the location after the optional enrichment
    warnings,            \* the codes of the warnings collected
    stages,              \* the stages entered, in order
    asteroid_input,      \* the asteroid simulated (after mitigation)
    mitigation_result,
    impact_result_data,  \* the dict calculate_impact_result returned
    impact_result,       \* the ImpactResult model
    damage_data,         \* the dict of assess_damage (and of the enhancer)
    response,            \* the HTTP response
    impact_calculator,   \* the fields of the shared ImpactCalculator
    db_simulations,      \* the requests whose simulation was saved
    raised,              \* the optional collaborators that raised, per request
    _cache,              \* NASAClient._cache: cache key -> the cached object
    _cache_expiry,       \* NASAClient._cache_expiry: cache key -> expiry time
    now,                 \* time.time(), in seconds
    http_requests,       \* the upstream HTTP requests made so far
    objects,             \* the dicts the client has created so far
    returned,            \* the calls of the client that have returned, in order
    called               \* the last direct call of a function and its result

service_vars == <<deployment, credentials, pc, body, request, location, warnings,
                  stages, asteroid_input, mitigation_result, impact_result_data,
                  impact_result, damage_data, response, impact_calculator,
                  db_simulations, raised>>

nasa_vars == <<_cache, _cache_expiry, now, http_requests, objects, returned>>

vars == <<service_vars, nasa_vars, called>>

\* NASAClient.__init__: both cache dicts empty
NASAClientInit ==
    /\ _cache = <<>>
    /\ _cache_expiry = <<>>
    /\ now = 0
    /\ http_requests = 0
    /\ objects = 0
    /\ returned = <<>>

Init ==
    /\ deployment \in Deployments
    /\ credentials = [i \in Slots |-> "unset"]
    /\ pc = [i \in Slots |-> "idle"]
    /\ body = [i \in Slots |-> NoneV]
    /\ request = [i \in Slots |-> NoneV]
    /\ location = [i \in Slots |-> NoneV]
    /\ warnings = [i \in Slots |-> <<>>]
    /\ stages = [i \in Slots |-> <<>>]
    /\ asteroid_input = [i \in Slots |-> NoneV]
    /\ mitigation_result = [i \in Slots |-> NoneV]
    /\ impact_result_data = [i \in Slots |-> NoneV]
    /\ impact_result = [i \in Slots |-> NoneV]
    /\ damage_data = [i \in Slots |-> NoneV]
    /\ response = [i \in Slots |-> NoneV]
    /\ impact_calculator = ImpactCalculatorInit
    /\ db_simulations = {}
    /\ raised = [i \in Slots |-> {}]
    /\ NASAClientInit
    /\ called = NoneV

\* a client posts a body; FastAPI builds the SimulationRequest and answers
\* 422 without calling the handler when the body does not validate
Submit(i) ==
    /\ deployment = "v2"
    /\ pc[i] = "idle"
    /\ \A j \in Slots : j < i => pc[j] # "idle"
    /\ \E b \in (IF i = 1 THEN RequestBodies ELSE Variants(body[1])) :
        /\ body' = [body EXCEPT ![i] = b]
        /\ request' = [request EXCEPT ![i] = SimulationRequest(b)]
    /\ credentials' = [credentials EXCEPT ![i] = "valid"]
    /\ pc' = [pc EXCEPT ![i] = IF request'[i] = Raise THEN "rejected" ELSE "received"]
    /\ response' = [response EXCEPT ![i] = IF request'[i] = Raise
                                           THEN [status |-> 422]
                                           ELSE NoneV]
    /\ UNCHANGED <<nasa_vars, called, raised>>
    /\ UNCHANGED <<deployment, location, warnings, stages, asteroid_input,
                   mitigation_result, impact_result_data, impact_result, damage_data,
                   impact_calculator, db_simulations>>

\* a client posts a body without a usable bearer token: the dependency
\* get_current_user of simulate_impact raises while FastAPI resolves the
\* dependencies, before the body is validated and before the handler is called
SubmitUnauthenticated(i) ==
    /\ deployment = "v2"
    /\ pc[i] = "idle"
    /\ \A j \in Slots : j < i => pc[j] # "idle"
    /\ \E b \in (IF i = 1 THEN AnonymousBodies ELSE AnonymousBodies \cap {body[1]}),
          c \in {"absent", "invalid"} :
        /\ body' = [body EXCEPT ![i] = b]
        /\ credentials' = [credentials EXCEPT ![i] = c]
        /\ response' = [response EXCEPT ![i] = [status |-> get_current_user(c)]]
    /\ pc' = [pc EXCEPT ![i] = "rejected"]
    /\ UNCHANGED <<nasa_vars, called, raised>>
    /\ UNCHANGED <<deployment, request, location, warnings, stages, asteroid_input,
                   mitigation_result, impact_result_data, impact_result, damage_data,
                   impact_calculator, db_simulations>>

\* simulate_impact up to the enrichment await: the location is enriched when
\* use_nasa_data is set, and kept with a warning when the enrichment raises
EnrichLocation(i) ==
    /\ deployment = "v2"
    /\ pc[i] = "received"
    /\ \E enriched \in (IF request[i].use_nasa_data THEN BOOLEAN ELSE {FALSE}) :
        /\ location' = [location EXCEPT ![i] =
                            IF enriched THEN enrich_location(request[i].impact_location)
                            ELSE request[i].impact_location]
        /\ warnings' = [warnings EXCEPT ![i] =
                            IF request[i].use_nasa_data /\ ~enriched
                            THEN <<"DATA_ENRICHMENT_FAILED">>
                            ELSE <<>>]
        /\ raised' = [raised EXCEPT ![i] =
                          IF request[i].use_nasa_data /\ ~enriched
                          THEN {"enrichment"} ELSE {}]
    /\ pc' = [pc EXCEPT ![i] = "enriched"]
    /\ UNCHANGED <<nasa_vars, called>>
    /\ UNCHANGED <<deployment, credentials,
                   body, request, stages, asteroid_input,
                   mitigation_result, impact_result_data, impact_result, damage_data,
                   response, impact_calculator, db_simulations>>

\* an except block that swallows the exception without a warning
WarningsAfter_silent(warnings_so_far, ok, code) == warnings_so_far

\* try: <optional collaborator> except Exception: warnings.append(Warning(
\* level="warning", code=code, ...)): the warnings after the block
WarningsAfter(warnings_so_far, ok, code) ==
    IF ok THEN warnings_so_far ELSE Append(warnings_so_far, code)

\* simulate_impact after the enrichment: mitigation, impact physics, zones,
\* trajectory, damage assessment, ML enhancement, response and database save,
\* with no await that yields in between.  An exception of a stage outside the
\* inner try blocks ends the request with HTTP 500.
Simulate(i) ==
    /\ deployment = "v2"
    /\ pc[i] = "enriched"
    /\ asteroid_input' = [asteroid_input EXCEPT ![i] =
           The({IF m = Raise THEN Raise ELSE m.asteroid_input :
                m \in {ApplyMitigation(request[i])}})]
    /\ mitigation_result' = [mitigation_result EXCEPT ![i] =
           The({IF m = Raise THEN NoneV ELSE m.mitigation_result :
                m \in {ApplyMitigation(request[i])}})]
    /\ impact_result_data' = [impact_result_data EXCEPT ![i] =
           IF asteroid_input'[i] = Raise THEN NoneV
           ELSE calculate_impact_result(impact_calculator, asteroid_input'[i],
                                        location[i])]
    /\ impact_calculator' =
           IF asteroid_input'[i] = Raise THEN impact_calculator
           ELSE InstanceAfterCall(impact_calculator, asteroid_input'[i])
    /\ impact_result' = [impact_result EXCEPT ![i] =
           IF ~Produced(impact_result_data'[i]) THEN NoneV
           ELSE ImpactResult(impact_result_data'[i],
                             IF request[i].include_zones
                             THEN _calculate_impact_zones(asteroid_input'[i], location[i],
                                                          impact_result_data'[i])
                             ELSE <<>>)]
    /\ stages' = [stages EXCEPT ![i] =
           (IF FGt(request[i].dv_mps, FZero) THEN <<"mitigation">> ELSE <<>>)
           \o (IF asteroid_input'[i] = Raise THEN <<>>
               ELSE ImpactStages(impact_calculator, asteroid_input'[i], location[i]))
           \o (IF Produced(impact_result_data'[i]) /\ request[i].include_zones
               THEN <<"zones">> ELSE <<>>)
           \o (IF Produced(impact_result'[i]) /\ request[i].calculate_trajectory
               THEN <<"trajectory">> ELSE <<>>)
           \o (IF Produced(impact_result'[i]) THEN <<"damage">> ELSE <<>>)
           \o (IF Produced(impact_result'[i]) /\ request[i].use_ml
               THEN <<"ml">> ELSE <<>>)]
    /\ \E trajectory_ok \in (IF Produced(impact_result'[i])
                                /\ request[i].calculate_trajectory
                             THEN BOOLEAN ELSE {TRUE}),
          ml_ok \in (IF Produced(impact_result'[i]) /\ request[i].use_ml
                     THEN BOOLEAN ELSE {TRUE}) :
        /\ warnings' = [warnings EXCEPT ![i] =
               WarningsAfter(WarningsAfter(@, trajectory_ok,
                                           "TRAJECTORY_CALCULATION_FAILED"),
                             ml_ok, "ML_ENHANCEMENT_FAILED")]
        /\ damage_data' = [damage_data EXCEPT ![i] =
               IF ~Produced(impact_result'[i]) THEN NoneV
               ELSE The({IF request[i].use_ml /\ ml_ok
                         THEN enhance([energy_megatons    |->
                                           kinetic_energy_megatons(asteroid_input'[i]),
                                       terrain_type       |-> location[i].terrain_type,
                                       population_density |->
                                           location[i].population_density],
                                      d)
                         ELSE d :
                         d \in {assess_damage(asteroid_input'[i], location[i],
                                              impact_result_data'[i])}})]
        /\ response' = [response EXCEPT ![i] =
               IF ~Produced(damage_data'[i]) \/ DamageAssessment(damage_data'[i]) = Raise
                  \/ SimulationResponseAsteroid(request[i], asteroid_input'[i]) = Raise
               THEN [status |-> 500]
               ELSE [status              |-> 200,
                     asteroid            |-> SimulationResponseAsteroid(request[i],
                                                                        asteroid_input'[i]),
                     impact_location     |-> location[i],
                     impact_result       |-> impact_result'[i],
                     damage_assessment   |-> DamageAssessment(damage_data'[i]),
                     mitigation_result   |-> mitigation_result'[i],
                     trajectory          |->
                         IF request[i].calculate_trajectory /\ trajectory_ok
                         THEN [points |-> TrajectoryTimePoints]
                         ELSE NoneV,
                     warnings            |-> warnings'[i],
                     simulation_metadata |->
                         [data_enriched      |-> request[i].use_nasa_data,
                          ml_enhanced        |-> request[i].use_ml,
                          deflection_applied |-> FGt(request[i].dv_mps, FZero),
                          dv_mps             |-> request[i].dv_mps]]]
        /\ \E db_ok \in (IF response'[i].status = 200 THEN BOOLEAN ELSE {TRUE}) :
            /\ db_simulations' = IF db_ok /\ response'[i].status = 200
                                 THEN db_simulations \cup {i} ELSE db_simulations
            /\ raised' = [raised EXCEPT ![i] =
                   @ \cup (IF trajectory_ok THEN {} ELSE {"trajectory"})
                     \cup (IF ml_ok THEN {} ELSE {"enhancer"})
                     \cup (IF db_ok THEN {} ELSE {"database"})]
    /\ pc' = [pc EXCEPT ![i] = IF response'[i].status = 200 THEN "done" ELSE "failed"]
    /\ UNCHANGED <<nasa_vars, called>>
    /\ UNCHANGED <<deployment, credentials,
                   body, request, location>>

\* the earlier tree: a client posts a body, validated as its SimulationRequest
SubmitV1(i) ==
    /\ deployment = "v1"
    /\ pc[i] = "idle"
    /\ \A j \in SlotsV1 : j < i => pc[j] # "idle"
    /\ \E b \in V1Bodies :
        /\ body' = [body EXCEPT ![i] = b]
        /\ request' = [request EXCEPT ![i] = SimulationRequestV1(b)]
    /\ pc' = [pc EXCEPT ![i] = IF request'[i] = Raise THEN "rejected" ELSE "received"]
    /\ response' = [response EXCEPT ![i] = IF request'[i] = Raise
                                           THEN [status |-> 422]
                                           ELSE NoneV]
    /\ UNCHANGED <<nasa_vars, called, raised>>
    /\ UNCHANGED <<deployment, credentials,
                   location, warnings, stages, asteroid_input,
                   mitigation_result, impact_result_data, impact_result, damage_data,
                   impact_calculator, db_simulations>>

\* the earlier simulate_impact up to the enrichment await; the call is not
\* guarded, so an enrichment that raises ends the request with HTTP 500
EnrichLocationV1(i) ==
    /\ deployment = "v1"
    /\ pc[i] = "received"
    /\ \E enriched \in (IF request[i].use_nasa_data THEN BOOLEAN ELSE {FALSE}) :
        /\ location' = [location EXCEPT ![i] =
                            IF enriched THEN enrich_location(request[i].impact_location)
                            ELSE request[i].impact_location]
        /\ pc' = [pc EXCEPT ![i] = IF request[i].use_nasa_data /\ ~enriched
                                   THEN "failed" ELSE "enriched"]
        /\ response' = [response EXCEPT ![i] = IF request[i].use_nasa_data /\ ~enriched
                                               THEN [status |-> 500] ELSE NoneV]
    /\ UNCHANGED <<nasa_vars, called, raised>>
    /\ UNCHANGED <<deployment, credentials,
                   body, request, warnings, stages, asteroid_input,
                   mitigation_result, impact_result_data, impact_result, damage_data,
                   impact_calculator, db_simulations>>

\* the earlier simulate_impact after the enrichment: mitigation, impact
\* physics, damage assessment and ML enhancement (both given request.asteroid,
\* the asteroid as requested), then the response models
SimulateV1(i) ==
    /\ deployment = "v1"
    /\ pc[i] = "enriched"
    /\ asteroid_input' = [asteroid_input EXCEPT ![i] = ApplyMitigationV1(request[i])]
    /\ impact_result_data' = [impact_result_data EXCEPT ![i] =
           IF asteroid_input'[i] = Raise THEN NoneV
           ELSE calculate_impact_result(impact_calculator, asteroid_input'[i],
                                        location[i])]
    /\ impact_calculator' =
           IF asteroid_input'[i] = Raise THEN impact_calculator
           ELSE InstanceAfterCall(impact_calculator, asteroid_input'[i])
    /\ damage_data' = [damage_data EXCEPT ![i] =
           IF ~Produced(impact_result_data'[i]) THEN NoneV
           ELSE The({IF request[i].use_ml
                     THEN enhance([energy_megatons    |->
                                       kinetic_energy_megatons(request[i].asteroid),
                                   terrain_type       |-> location[i].terrain_type,
                                   population_density |-> location[i].population_density],
                                  d)
                     ELSE d :
                     d \in {assess_damage(request[i].asteroid, location[i],
                                          impact_result_data'[i])}})]
    /\ impact_result' = [impact_result EXCEPT ![i] =
           IF ~Produced(impact_result_data'[i]) THEN NoneV
           ELSE ImpactResultV1(impact_result_data'[i])]
    /\ stages' = [stages EXCEPT ![i] =
           (IF FGt(request[i].dv_mps, FZero) THEN <<"mitigation">> ELSE <<>>)
           \o (IF asteroid_input'[i] = Raise THEN <<>>
               ELSE ImpactStages(impact_calculator, asteroid_input'[i], location[i]))
           \o (IF Produced(impact_result_data'[i]) THEN <<"damage">> ELSE <<>>)
           \o (IF Produced(impact_result_data'[i]) /\ request[i].use_ml
               THEN <<"ml">> ELSE <<>>)]
    /\ response' = [response EXCEPT ![i] =
           IF ~Produced(impact_result'[i]) \/ DamageAssessment(damage_data'[i]) = Raise
              \/ AsteroidResponse(asteroid_input'[i]) = Raise
           THEN [status |-> 500]
           ELSE [status              |-> 200,
                 asteroid            |-> AsteroidResponse(asteroid_input'[i]),
                 impact_location     |-> location[i],
                 impact_result       |-> impact_result'[i],
                 damage_assessment   |-> DamageAssessment(damage_data'[i]),
                 simulation_metadata |->
                     [data_enriched      |-> request[i].use_nasa_data,
                      ml_enhanced        |-> request[i].use_ml,
                      deflection_applied |-> FGt(request[i].dv_mps, FZero),
                      dv_mps             |-> request[i].dv_mps]]]
    /\ pc' = [pc EXCEPT ![i] = IF response'[i].status = 200 THEN "done" ELSE "failed"]
    /\ UNCHANGED <<nasa_vars, called, raised>>
    /\ UNCHANGED <<deployment, credentials,
                   body, request, location, warnings, mitigation_result,
                   db_simulations>>

Next ==
    \/ \E i \in Slots : Submit(i) \/ SubmitUnauthenticated(i)
    \/ \E i \in Slots : EnrichLocation(i) \/ Simulate(i)
    \/ \E i \in SlotsV1 : SubmitV1(i) \/ EnrichLocationV1(i) \/ SimulateV1(i)

Spec == Init /\ [][Next]_vars

(***************************************************************************)
(* app/nasa/client.py: the client and its TTL cache, called on its own     *)
(***************************************************************************)
\* settings.CACHE_TTL_SECONDS
_ttl_seconds == 300

\* the seconds that pass between two observations of the clock
TickSeconds == 150

\* the clock stops here
MaxNow == 750

\* the calls of the client that are followed
MaxCalls == 3

\* coordinates in units of 0.0001 degree: 10.1234, 10.1236 and 60.0 north,
\* 20.5678 west
CallLatitudes == {101234, 101236, 600000}

CallLongitudes == {-205678}

\* NEO identifiers
AsteroidIds == {3542519}

\* round(x, 3) of a coordinate given in units of 0.0001 degree, in units of
\* 0.001 degree (no coordinate used here lies on a tie)
Round3(x) == IF x >= 0 THEN (x + 5) \div 10 ELSE -((-x + 5) \div 10)

\* f"pop:{round(lat,3)}:{round(lon,3)}" and f"neo:{asteroid_id}"
PopKey(lat, lon) == <<"pop", Round3(lat), Round3(lon)>>

NeoKey(asteroid_id) == <<"neo", asteroid_id, 0>>

\* a dict without one key: dict.pop(key, None)
Pop(d, key) == [k \in DOMAIN d \ {key} |-> d[k]]

\* a dict with d[key] = value
Set(d, key, value) == [k \in DOMAIN d \cup {key} |-> IF k = key THEN value ELSE d[k]]

\* a cache whose entries never expire
CacheHit_forever(key) == key \in DOMAIN _cache_expiry

\* _cache_get(key) finds a live entry: there is an expiry and it is not in the
\* past (exp < time.time() is the expired case)
CacheHit(key) == key \in DOMAIN _cache_expiry /\ ~(_cache_expiry[key] < now)

\* the two dicts after _cache_get(key): an expired entry is popped from both
AfterCacheGet(d, key) ==
    IF key \in DOMAIN _cache_expiry /\ _cache_expiry[key] < now THEN Pop(d, key) ELSE d

\* time passes
Tick ==
    /\ now < MaxNow
    /\ now' = now + TickSeconds
    /\ UNCHANGED <<_cache, _cache_expiry, http_requests, objects, returned>>
    /\ UNCHANGED <<service_vars, called>>

\* NASAClient.get_population_data(lat, lon): a live cache entry is returned as
\* it is; otherwise the dict is built from the latitude heuristic, with no
\* HTTP request, stored and returned
GetPopulationData(lat, lon) ==
    /\ Len(returned) < MaxCalls
    /\ IF CacheHit(PopKey(lat, lon))
       THEN /\ returned' = Append(returned,
                                  [method |-> "get_population_data",
                                   args   |-> <<lat, lon>>,
                                   key    |-> PopKey(lat, lon),
                                   at     |-> now,
                                   cached |-> TRUE,
                                   stored |-> FALSE,
                                   http   |-> 0,
                                   data   |-> _cache[PopKey(lat, lon)]])
            /\ UNCHANGED <<_cache, _cache_expiry, objects>>
       ELSE /\ objects' = objects + 1
            /\ _cache' = Set(AfterCacheGet(_cache, PopKey(lat, lon)), PopKey(lat, lon),
                             [id                 |-> objects',
                              latitude           |-> lat,
                              longitude          |-> lon,
                              population_density |->
                                  get_population_data(Abs(lat) \div 10000)])
            /\ _cache_expiry' = Set(AfterCacheGet(_cache_expiry, PopKey(lat, lon)),
                                    PopKey(lat, lon), now + _ttl_seconds)
            /\ returned' = Append(returned,
                                  [method |-> "get_population_data",
                                   args   |-> <<lat, lon>>,
                                   key    |-> PopKey(lat, lon),
                                   at     |-> now,
                                   cached |-> FALSE,
                                   stored |-> TRUE,
                                   http   |-> 0,
                                   data   |-> _cache'[PopKey(lat, lon)]])
    /\ UNCHANGED <<now, http_requests>>
    /\ UNCHANGED <<service_vars, called>>

\* NASAClient.get_asteroid_data(asteroid_id): a live cache entry is returned;
\* otherwise one HTTP request is made, and its JSON is stored and returned, or
\* the request fails and the demo record is returned without being stored
GetAsteroidData(asteroid_id) ==
    /\ Len(returned) < MaxCalls
    /\ IF CacheHit(NeoKey(asteroid_id))
       THEN /\ returned' = Append(returned,
                                  [method |-> "get_asteroid_data",
                                   args   |-> <<asteroid_id, 0>>,
                                   key    |-> NeoKey(asteroid_id),
                                   at     |-> now,
                                   cached |-> TRUE,
                                   stored |-> FALSE,
                                   http   |-> 0,
                                   data   |-> _cache[NeoKey(asteroid_id)]])
            /\ UNCHANGED <<_cache, _cache_expiry, objects, http_requests>>
       ELSE /\ http_requests' = http_requests + 1
            /\ objects' = objects + 1
            /\ \E ok \in BOOLEAN :
                   /\ _cache' =
                          IF ok
                          THEN Set(AfterCacheGet(_cache, NeoKey(asteroid_id)),
                                   NeoKey(asteroid_id),
                                   [id |-> objects', latitude |-> 0, longitude |-> 0,
                                    population_density |-> FZero])
                          ELSE AfterCacheGet(_cache, NeoKey(asteroid_id))
                   /\ _cache_expiry' =
                          IF ok
                          THEN Set(AfterCacheGet(_cache_expiry, NeoKey(asteroid_id)),
                                   NeoKey(asteroid_id), now + _ttl_seconds)
                          ELSE AfterCacheGet(_cache_expiry, NeoKey(asteroid_id))
                   /\ returned' = Append(returned,
                                         [method |-> "get_asteroid_data",
                                          args   |-> <<asteroid_id, 0>>,
                                          key    |-> NeoKey(asteroid_id),
                                          at     |-> now,
                                          cached |-> FALSE,
                                          stored |-> ok,
                                          http   |-> 1,
                                          data   |-> [id |-> objects', latitude |-> 0,
                                                      longitude |-> 0,
                                                      population_density |-> FZero]])
    /\ UNCHANGED now
    /\ UNCHANGED <<service_vars, called>>

\* the client on its own: the service is idle
InitNasa ==
    /\ Init
    /\ deployment = "v2"

NextNasa ==
    \/ Tick
    \/ \E lat \in CallLatitudes, lon \in CallLongitudes : GetPopulationData(lat, lon)
    \/ \E asteroid_id \in AsteroidIds : GetAsteroidData(asteroid_id)

SpecNasa == InitNasa /\ [][NextNasa]_vars

(***************************************************************************)
(* The functions on their own: the service and the client are idle, one   *)
(* function at a time is called with arguments of its domain.             *)
(***************************************************************************)

\* radii in metres; 333, 455 and 459 are rounded twice by * 1.5 then * 1.2
Radii == {Flt(100, 0), Flt(333, 0), Flt(455, 0), Flt(459, 0), Flt(689, 0)}

\* magnitudes around the threshold 6.0 of calculate_evacuation_radius
SeismicMagnitudes == {Flt(59, -1), Flt(60, -1), Flt(61, -1), Flt(95, -1)}

\* self.calculate_evacuation_radius(blast_radius, thermal_radius, seismic_magnitude)
EvacuationRadiusCall(blast_radius, thermal_radius, seismic_magnitude) ==
    /\ called = NoneV
    /\ called' = [method |-> "calculate_evacuation_radius",
                  args |-> <<blast_radius, thermal_radius, seismic_magnitude>>,
                  result |-> calculate_evacuation_radius(blast_radius,
                                 thermal_radius, seismic_magnitude)]
    /\ UNCHANGED <<service_vars, nasa_vars>>

\* the locations of the request bodies, every terrain among them
CallLocations == LocationBodies \cup {b.impact_location : b \in TerrainBodies}

\* ImpactCalculator().calculate_impact_result(Asteroid(**a), ImpactLocation(**l))
ImpactResultCall(a, l) ==
    /\ called = NoneV
    /\ called' = [method |-> "calculate_impact_result",
                  args |-> <<Asteroid(a), ImpactLocation(l)>>,
                  result |-> calculate_impact_result(ImpactCalculatorInit,
                                 Asteroid(a), ImpactLocation(l))]
    /\ UNCHANGED <<service_vars, nasa_vars>>

\* feature dicts on both sides of 100 megatons and of 20000 people per km^2
EnhancerFeatures ==
    {[energy_megatons |-> energy_mt, terrain_type |-> terrain,
      population_density |-> population_density] :
        energy_mt \in {Flt(43, -2), Flt(100, 0), Flt(101, 0)},
        terrain \in {"urban", "rural"},
        population_density \in {FZero, Flt(5000, 0), Flt(20000, 0), Flt(50000, 0)}}

\* damage dicts as assess_damage returns them
EnhancerDamages ==
    {assess_damage(Asteroid(a), ImpactLocation(l),
                   calculate_impact_result(ImpactCalculatorInit, Asteroid(a),
                                           ImpactLocation(l))) :
        a \in {BaseBody.asteroid, [BaseBody.asteroid EXCEPT !.mass = Flt(25, 8)]},
        l \in {BaseBody.impact_location,
               [BaseBody.impact_location EXCEPT !.terrain_type = "desert"]}}

\* ml_enhancer.enhance(features, damage)
EnhanceCall(features, damage) ==
    /\ called = NoneV
    /\ called' = [method |-> "enhance",
                  args |-> <<features, damage>>,
                  damage_after |-> DamageAfterEnhance(features, damage),
                  result |-> enhance(features, damage)]
    /\ UNCHANGED <<service_vars, nasa_vars>>

NextCall ==
    \/ \E features \in EnhancerFeatures, damage \in EnhancerDamages :
           EnhanceCall(features, damage)
    \/ \E a \in AsteroidBodies, l \in CallLocations : ImpactResultCall(a, l)
    \/ \E blast_radius \in Radii, thermal_radius \in Radii,
          seismic_magnitude \in SeismicMagnitudes :
           EvacuationRadiusCall(blast_radius, thermal_radius, seismic_magnitude)

SpecCall == Init /\ [][NextCall]_vars
(***************************************************************************)
(* Properties                                                              *)
(***************************************************************************)
\* the handler has returned for request i: a response or an HTTP 500
Finished(i) == pc[i] \in {"done", "failed"}

\* calculate_impact_result was called for request i
ImpactCalled(i) == Finished(i) /\ Produced(asteroid_input[i])

\* C1: for every valid asteroid and valid location, calculate_impact_result
\* enters all five stages (atmospheric entry, crater, blast, tsunami,
\* evacuation) and returns an impact result; no stage raises.
C1_ImpactResultTotal ==
    \A i \in Slots :
        ImpactCalled(i) =>
            /\ Produced(impact_result_data[i])
            /\ \E k \in 1..Len(stages[i]) : stages[i][k] = "evacuation"

\* C2: a request with dv_mps >= asteroid.velocity gets an adjusted asteroid of
\* velocity exactly 0, every other field copied, and a mitigation result with
\* an energy reduction of exactly 100 percent, not an error.
C2_FullDeflection ==
    \A i \in Slots :
        (Finished(i) /\ FGe(request[i].dv_mps, request[i].asteroid.velocity)) =>
            /\ Produced(asteroid_input[i])
            /\ asteroid_input[i].velocity = FZero
            /\ asteroid_input[i].mass = request[i].asteroid.mass
            /\ asteroid_input[i].impact_angle = request[i].asteroid.impact_angle
            /\ Produced(mitigation_result[i])
            /\ mitigation_result[i].energy_reduction = FromInt(100)

\* C3: for every valid asteroid and location, calculate_crater_formation
\* returns a crater_diameter > 0.
C3_CraterDiameterPositive ==
    \A i \in Slots :
        ImpactCalled(i) =>
            FGt(calculate_crater_formation(impact_calculator, asteroid_input[i],
                                           location[i]).crater_diameter,
                FZero)

\* C4: for every valid asteroid and location, the damage assessment (with or
\* without the enhancer) has casualties, injured, displaced and building
\* counts >= 0, 0 <= environmental_impact_score <= 10, total_economic_cost >= 0
\* and recovery_time_years >= 0.
C4_DamageRanges ==
    \A i \in Slots :
        Produced(damage_data[i]) =>
            /\ damage_data[i].estimated_casualties >= 0
            /\ damage_data[i].injured_count >= 0
            /\ damage_data[i].displaced_count >= 0
            /\ damage_data[i].buildings_destroyed >= 0
            /\ damage_data[i].buildings_damaged >= 0
            /\ FGe(damage_data[i].environmental_impact_score, FZero)
            /\ FLe(damage_data[i].environmental_impact_score, FromInt(10))
            /\ FGe(damage_data[i].total_economic_cost, FZero)
            /\ FGe(damage_data[i].recovery_time_years, FZero)

\* two asteroids that differ in the mass only, the first the heavier
HeavierOnly(a, b) == FGt(a.mass, b.mass) /\ [a EXCEPT !.mass = b.mass] = b

\* two asteroids that differ in the velocity only, the first the faster
FasterOnly(a, b) == FGt(a.velocity, b.velocity) /\ [a EXCEPT !.velocity = b.velocity] = b

\* requests i and j got an impact result for the same location, and the
\* asteroid of i is the asteroid of j with a larger mass or a larger velocity
LargerImpact(i, j) ==
    /\ Produced(impact_result_data[i]) /\ Produced(impact_result_data[j])
    /\ location[i] = location[j]
    /\ \/ HeavierOnly(asteroid_input[i], asteroid_input[j])
       \/ FasterOnly(asteroid_input[i], asteroid_input[j])

C6_TsunamiByTerrain ==
    \A i \in Slots :
        ImpactCalled(i) =>
            IF location[i].terrain_type = "ocean"
            THEN location[i].water_depth # NoneV =>
                     /\ Produced(impact_result_data[i])
                     /\ FGt(impact_result_data[i].tsunami_height, FZero)
            ELSE /\ Produced(impact_result_data[i])
                 /\ impact_result_data[i].tsunami_height = FZero

\* C7: an asteroid with mass, diameter or velocity <= 0, impact_angle outside
\* [0, 90] or porosity outside [0, 1], and a location with latitude, longitude,
\* population_density or infrastructure_density outside its range, fails
\* validation when it is constructed, and no physics or damage stage runs for
\* it: a request body is rejected before the handler, and an asteroid the
\* handler fails to construct is not simulated.
C7_InvalidInputRejected ==
    \A i \in Slots :
        LET a == body[i].asteroid
            l == body[i].impact_location
            invalid ==
                \/ FLe(a.mass, FZero) \/ FLe(a.diameter, FZero) \/ FLe(a.velocity, FZero)
                \/ a.impact_angle < 0 \/ a.impact_angle > 90
                \/ (IsFloat(a.porosity)
                    /\ (FLt(a.porosity, FZero) \/ FGt(a.porosity, FromInt(1))))
                \/ l.latitude < -90 \/ l.latitude > 90
                \/ l.longitude < -180 \/ l.longitude > 180
                \/ FLt(l.population_density, FZero)
                \/ FLt(l.infrastructure_density, FZero)
                \/ FGt(l.infrastructure_density, FromInt(1))
        IN  /\ (body[i] # NoneV /\ invalid) =>
                /\ request[i] = Raise
                /\ pc[i] = "rejected"
                /\ stages[i] = <<>>
                /\ impact_result_data[i] = NoneV
                /\ damage_data[i] = NoneV
            /\ asteroid_input[i] = Raise =>
                /\ pc[i] = "failed"
                /\ stages[i] = <<"mitigation">>
                /\ impact_result_data[i] = NoneV
                /\ damage_data[i] = NoneV

\* C7: a body with a mass of 0 has been rejected
C7_ZeroMassRejected ==
    \E i \in Slots :
        /\ pc[i] = "rejected"
        /\ body[i].asteroid.mass = FZero

\* C8: an asteroid constructed without a density has the density of its
\* composition (iron 7800, stony 3000, carbonaceous 2000, mixed 4000), a
\* supplied density is kept, and the density is never absent afterwards.
C8_DensityNeverAbsent ==
    \A i \in Slots :
        Produced(request[i]) =>
            /\ request[i].asteroid.density # NoneV
            /\ IF IsFloat(body[i].asteroid.density)
               THEN request[i].asteroid.density = body[i].asteroid.density
               ELSE request[i].asteroid.density =
                        set_density(NoneV, body[i].asteroid.composition)

SameTrajectoryImpact(i, j) ==
    /\ Produced(impact_result_data[i]) /\ Produced(impact_result_data[j])
    /\ location[i] = location[j]
    /\ asteroid_input[i].mass = asteroid_input[j].mass
    /\ asteroid_input[i].velocity = asteroid_input[j].velocity
    /\ asteroid_input[i].impact_angle = asteroid_input[j].impact_angle

\* C10: two valid asteroids of the same mass, velocity and impact angle that
\* differ in diameter, composition, density, porosity or strength get, for the
\* same location, identical crater, blast, thermal, fireball, seismic,
\* tsunami, evacuation_radius and affected_area values and an identical
\* damage assessment; only atmospheric_effects may differ.
C10_EntryDoesNotInfluence ==
    \A i, j \in Slots :
        SameTrajectoryImpact(i, j) =>
            /\ [impact_result_data[i] EXCEPT !.atmospheric_effects = NoneV]
                   = [impact_result_data[j] EXCEPT !.atmospheric_effects = NoneV]
            /\ damage_data[i] = damage_data[j]

\* C10: two asteroids of different diameter, composition, density, porosity
\* and strength have been simulated, with different atmospheric effects
C10_DifferentBodiesSimulated ==
    \E i, j \in Slots :
        /\ SameTrajectoryImpact(i, j)
        /\ asteroid_input[i].diameter # asteroid_input[j].diameter
        /\ asteroid_input[i].composition # asteroid_input[j].composition
        /\ asteroid_input[i].density # asteroid_input[j].density
        /\ asteroid_input[i].porosity # asteroid_input[j].porosity
        /\ asteroid_input[i].strength # asteroid_input[j].strength
        /\ impact_result_data[i].atmospheric_effects
               # impact_result_data[j].atmospheric_effects
        /\ Produced(damage_data[i])

\* two finished requests whose inputs to calculate_human_casualties differ in
\* the population density only, i being the less populated
DenserOnly(i, j) ==
    /\ Produced(damage_data[i]) /\ Produced(damage_data[j])
    /\ ~request[i].use_ml /\ ~request[j].use_ml
    /\ impact_result_data[i] = impact_result_data[j]
    /\ [location[i] EXCEPT !.population_density = FZero]
         = [location[j] EXCEPT !.population_density = FZero]
    /\ FLt(location[i].population_density, location[j].population_density)

\* C11: with the impact result and every other location field fixed, a larger
\* population_density never gives a smaller estimated_casualties.
C11_CasualtiesMonotone ==
    \A i, j \in Slots :
        DenserOnly(i, j) =>
            damage_data[i].estimated_casualties <= damage_data[j].estimated_casualties

\* the place of a stage in the handler's body
StageRank(s) ==
    CASE s = "mitigation"        -> 1
      [] s = "atmospheric_entry" -> 2
      [] s = "crater"            -> 3
      [] s = "blast"             -> 4
      [] s = "tsunami"           -> 5
      [] s = "evacuation"        -> 6
      [] s = "zones"             -> 7
      [] s = "trajectory"        -> 8
      [] s = "damage"            -> 9
      [] s = "ml"                -> 10

\* the stage was entered for request i
Entered(i, s) == \E p \in 1..Len(stages[i]) : stages[i][p] = s

\* the damage assessment of the asteroid that was simulated: assess_damage on
\* its impact result and the location, then the enhancer when use_ml is set
DamageOf(asteroid, loc, impact_data, use_ml) ==
    The({IF use_ml
         THEN enhance([energy_megatons    |-> kinetic_energy_megatons(asteroid),
                       terrain_type       |-> loc.terrain_type,
                       population_density |-> loc.population_density],
                      d)
         ELSE d :
         d \in {assess_damage(asteroid, loc, impact_data)}})

\* C12: the stages of a request run in one order: velocity adjustment (only
\* when dv_mps > 0), impact calculation on the adjusted asteroid, damage
\* assessment on that impact result and the location, the enhancer (only when
\* use_ml is set) on that damage assessment; with dv_mps > 0 neither the
\* impact result nor the damage assessment comes from the unadjusted velocity.
C12_StageOrder ==
    \A i \in Slots :
        (Finished(i) /\ Produced(request[i])) =>
            /\ \A p, q \in 1..Len(stages[i]) :
                   p < q => StageRank(stages[i][p]) < StageRank(stages[i][q])
            /\ Entered(i, "mitigation") => FGt(request[i].dv_mps, FZero)
            /\ (Entered(i, "atmospheric_entry") /\ FGt(request[i].dv_mps, FZero)) =>
                   Entered(i, "mitigation")
            /\ Entered(i, "ml") => request[i].use_ml
            /\ Entered(i, "damage") => Entered(i, "evacuation")
            /\ (Produced(asteroid_input[i]) /\ FGt(request[i].dv_mps, FZero)) =>
                   asteroid_input[i].velocity
                       = FSub(request[i].asteroid.velocity, request[i].dv_mps)
            /\ Produced(impact_result_data[i]) =>
                   impact_result_data[i]
                       = calculate_impact_result(impact_calculator, asteroid_input[i],
                                                 location[i])
            /\ Produced(damage_data[i]) =>
                   damage_data[i] = DamageOf(asteroid_input[i], location[i],
                                             impact_result_data[i],
                                             request[i].use_ml
                                                 /\ "enhancer" \notin raised[i])

\* request i ended with a damage assessment that went through the enhancer
\* with terrain_type urban
EnhancedUrban(i) ==
    /\ Finished(i) /\ Produced(request[i]) /\ Produced(damage_data[i])
    /\ Produced(impact_result_data[i])
    /\ request[i].use_ml /\ "enhancer" \notin raised[i]
    /\ location[i].terrain_type = "urban"

\* the damage assessment the enhancer was given for request i
BaseDamage(i) == assess_damage(asteroid_input[i], location[i], impact_result_data[i])

\* C13: the enhancer applied with terrain_type urban to a base damage
\* assessment gives estimated_casualties = trunc(0.9 x base casualties) and
\* total_economic_cost = (adjusted casualties x 1,000,000 + adjusted injured x
\* 100,000 + adjusted displaced x 50,000) + the base infrastructure_damage_cost
\* + the base environmental_impact_score x 1e9.
C13_EnhancerUrban ==
    \A i \in Slots :
        EnhancedUrban(i) =>
            /\ damage_data[i].estimated_casualties
                   = (9 * BaseDamage(i).estimated_casualties) \div 10
            /\ damage_data[i].total_economic_cost
                   = FAdd(FAdd(FAdd(FAdd(FMul(FromInt(damage_data[i].estimated_casualties),
                                              Flt(1, 6)),
                                         FMul(FromInt(damage_data[i].injured_count),
                                              Flt(1, 5))),
                                    FMul(FromInt(damage_data[i].displaced_count),
                                         Flt(5, 4))),
                               BaseDamage(i).infrastructure_damage_cost),
                          FMul(BaseDamage(i).environmental_impact_score, Flt(1, 9)))

\* an urban request went through the enhancer with base casualties that 0.9
\* does not scale to an integer, and with a base infrastructure cost to keep
C13_Witness ==
    \E i \in Slots :
        /\ EnhancedUrban(i)
        /\ (9 * BaseDamage(i).estimated_casualties) % 10 >= 5
        /\ damage_data[i].estimated_casualties < BaseDamage(i).estimated_casualties
        /\ FGt(BaseDamage(i).infrastructure_damage_cost, FZero)

\* the current handler computed an impact result and a damage assessment for
\* request i
Computed(i) ==
    /\ deployment = "v2"
    /\ Finished(i) /\ Produced(request[i])
    /\ Produced(impact_result[i])
    /\ Produced(damage_data[i]) /\ DamageAssessment(damage_data[i]) # Raise

\* C14: the simulation response contains a mitigation result if and only if
\* dv_mps > 0; with dv_mps = 0 the asteroid passed to the impact calculator is
\* the requested asteroid unchanged; with dv_mps > 0 the adjusted asteroid
\* differs from the requested one in velocity only and the mitigation result's
\* dv_applied equals dv_mps.
C14_MitigationIffDeflection ==
    \A i \in Slots :
        Computed(i) =>
            /\ response[i].status = 200
            /\ Produced(response[i].mitigation_result) <=> FGt(request[i].dv_mps, FZero)
            /\ ~FGt(request[i].dv_mps, FZero) => asteroid_input[i] = request[i].asteroid
            /\ FGt(request[i].dv_mps, FZero) =>
                   /\ [asteroid_input[i] EXCEPT !.velocity = request[i].asteroid.velocity]
                          = request[i].asteroid
                   /\ response[i].mitigation_result.dv_applied = request[i].dv_mps

\* request i was posted to the current handler without credentials, with a
\* valid asteroid and location and use_nasa_data false
AnonymousValid(i) ==
    /\ deployment = "v2"
    /\ credentials[i] = "absent"
    /\ SimulationRequest(body[i]) # Raise
    /\ ~body[i].use_nasa_data

\* C15: a POST to the simulate endpoint with a valid asteroid and location,
\* use_nasa_data false, use_ml false or true, and no credentials succeeds with
\* status 200, an impact_result with crater_diameter >= 0, a damage_assessment
\* with estimated_casualties >= 0 and simulation_metadata.ml_enhanced equal to
\* the requested use_ml.
C15_AnonymousSimulate ==
    \A i \in Slots :
        AnonymousValid(i) =>
            /\ pc[i] \notin {"rejected", "failed"}
            /\ pc[i] = "done" =>
                   /\ response[i].status = 200
                   /\ FGe(response[i].impact_result.crater_diameter, FZero)
                   /\ response[i].damage_assessment.estimated_casualties >= 0
                   /\ response[i].simulation_metadata.ml_enhanced = body[i].use_ml

\* calls p and q of get_population_data: p built and returned a value, q came
\* later with the same coordinates and within the cache TTL of p
SecondWithinTtl(p, q) ==
    /\ p < q
    /\ returned[p].method = "get_population_data"
    /\ returned[q].method = "get_population_data"
    /\ ~returned[p].cached
    /\ returned[q].args = returned[p].args
    /\ returned[q].at <= returned[p].at + _ttl_seconds

\* C16: after get_population_data(lat, lon) has fetched and returned a value,
\* a second call with the same coordinates within the cache TTL returns the
\* very same cached object and issues no additional upstream HTTP request:
\* exactly one upstream request is made for the two calls.
C16_PopulationCached ==
    \A p, q \in 1..Len(returned) :
        SecondWithinTtl(p, q) =>
            /\ returned[q].data = returned[p].data
            /\ returned[q].http = 0
            /\ returned[p].http + returned[q].http = 1

\* the current handler computed the impact zones of request i
ZonesComputed(i) ==
    /\ deployment = "v2"
    /\ Finished(i) /\ Produced(request[i])
    /\ request[i].include_zones
    /\ Produced(impact_result[i])

\* the zones of request i of one type
ZonesOfType(i, zone_type) ==
    {k \in 1..Len(impact_result[i].impact_zones) :
        impact_result[i].impact_zones[k].zone_type = zone_type}

\* every zone of request i of the type has this radius and this intensity
ZonesAre(i, zone_type, radius, intensity) ==
    \A k \in ZonesOfType(i, zone_type) :
        /\ impact_result[i].impact_zones[k].radius = radius
        /\ impact_result[i].impact_zones[k].intensity = intensity

\* C17: whenever the simulation computes impact zones, the list has exactly
\* one seismic zone (radius 2 x blast_radius, intensity min(10,
\* seismic_magnitude)), exactly one thermal zone (radius thermal_radius,
\* intensity 8.0), exactly one blast zone (radius blast_radius, intensity
\* 10.0), and a tsunami zone (radius tsunami_height x 1000, intensity min(10,
\* tsunami_height)) if and only if the terrain is ocean and tsunami_height > 1;
\* each zone's affected_population is trunc(radius in km x population_density).
C17_ImpactZones ==
    \A i \in Slots :
        ZonesComputed(i) =>
            /\ Cardinality(ZonesOfType(i, "seismic")) = 1
            /\ ZonesAre(i, "seismic", FMul(FromInt(2), impact_result[i].blast_radius),
                        FMin(FromInt(10), impact_result[i].seismic_magnitude))
            /\ Cardinality(ZonesOfType(i, "thermal")) = 1
            /\ ZonesAre(i, "thermal", impact_result[i].thermal_radius, Flt(8, 0))
            /\ Cardinality(ZonesOfType(i, "blast")) = 1
            /\ ZonesAre(i, "blast", impact_result[i].blast_radius, Flt(10, 0))
            /\ ZonesOfType(i, "tsunami") # {} <=>
                   /\ location[i].terrain_type = "ocean"
                   /\ FGt(impact_result[i].tsunami_height, FromInt(1))
            /\ Cardinality(ZonesOfType(i, "tsunami")) <= 1
            /\ ZonesAre(i, "tsunami", FMul(impact_result[i].tsunami_height, FromInt(1000)),
                        FMin(FromInt(10), impact_result[i].tsunami_height))
            /\ \A k \in 1..Len(impact_result[i].impact_zones) :
                   /\ impact_result[i].impact_zones[k].zone_type
                          \in {"seismic", "thermal", "blast", "tsunami"}
                   /\ impact_result[i].impact_zones[k].affected_population
                          = Trunc(FMul(FMul(impact_result[i].impact_zones[k].radius,
                                            Flt(1, -3)),
                                       location[i].population_density))

\* an ocean impact with a wave above 1 m got its four zones, populated
C17_FourZones ==
    \E i \in Slots :
        /\ ZonesComputed(i)
        /\ Len(impact_result[i].impact_zones) = 4
        /\ ZonesOfType(i, "tsunami") # {}
        /\ \A k \in 1..4 : impact_result[i].impact_zones[k].affected_population > 0

\* the current handler ran its mitigation block for request i with a
\* deflection below the velocity of the asteroid
PartlyDeflected(i) ==
    /\ deployment = "v2"
    /\ Finished(i) /\ Produced(request[i])
    /\ FGt(request[i].dv_mps, FZero)
    /\ FLt(request[i].dv_mps, request[i].asteroid.velocity)

\* C18: for 0 < dv_mps < velocity the mitigation result's success_probability
\* is min(1.0, dv_mps / (0.1 x (velocity - dv_mps))), the denominator taken
\* from the velocity after the deflection; it lies in (0, 1] and is 1.0 for
\* every dv_mps >= velocity / 11.  The mitigation result is the
\* MitigationResult the handler builds in its mitigation block.
C18_SuccessProbability ==
    \A i \in Slots :
        PartlyDeflected(i) =>
            /\ Produced(mitigation_result[i])
            /\ mitigation_result[i].success_probability
                   = FMin(Flt(10, -1),
                          FDiv(request[i].dv_mps,
                               FMul(Flt(1, -1), FSub(request[i].asteroid.velocity,
                                                     request[i].dv_mps))))
            /\ FGt(mitigation_result[i].success_probability, FZero)
            /\ FLe(mitigation_result[i].success_probability, Flt(10, -1))
            /\ FGe(FMul(request[i].dv_mps, FromInt(11)), request[i].asteroid.velocity) =>
                   mitigation_result[i].success_probability = Flt(10, -1)

\* a deflection between velocity / 11 and velocity / 10 got probability 1.0
C18_CertainBelowTenth ==
    \E i \in Slots :
        /\ PartlyDeflected(i)
        /\ Produced(mitigation_result[i])
        /\ FLt(FMul(request[i].dv_mps, FromInt(10)), request[i].asteroid.velocity)
        /\ mitigation_result[i].success_probability = Flt(10, -1)

\* assess_damage returned for request i and no enhancer changed its output
Assessed(i) ==
    /\ Finished(i) /\ Produced(request[i])
    /\ Produced(impact_result_data[i]) /\ Produced(damage_data[i])
    /\ ~request[i].use_ml

\* the factors by terrain type: casualties, infrastructure, environment
TerrainFactors(terrain_type) ==
    CASE terrain_type = "urban"    -> <<Flt(10, -1), Flt(10, -1), Flt(8, -1)>>
      [] terrain_type = "rural"    -> <<Flt(3, -1), Flt(4, -1), Flt(10, -1)>>
      [] terrain_type = "mountain" -> <<Flt(1, -1), Flt(2, -1), Flt(12, -1)>>
      [] terrain_type = "desert"   -> <<Flt(5, -2), Flt(1, -1), Flt(6, -1)>>
      [] terrain_type = "forest"   -> <<Flt(2, -1), Flt(3, -1), Flt(15, -1)>>
      [] terrain_type = "ice"      -> <<Flt(1, -1), Flt(1, -1), Flt(20, -1)>>
      [] terrain_type = "ocean"    -> <<FZero, FZero, Flt(10, -1)>>
      [] terrain_type = "land"     -> <<Flt(5, -1), Flt(5, -1), Flt(10, -1)>>

\* the casualties of request i before the terrain factor: those of the same
\* impact on urban terrain, whose factor is 1.0
UnscaledCasualties(i) ==
    calculate_human_casualties(impact_result_data[i],
                               [location[i] EXCEPT !.terrain_type = "urban"])
        .estimated_casualties

\* the infrastructure damage of request i for an infrastructure density
\* scaled by the factor: that of the same impact on urban terrain (factor
\* 1.0) with the scaled density
ScaledInfrastructure(i, factor) ==
    calculate_infrastructure_damage(
        impact_result_data[i],
        [location[i] EXCEPT !.terrain_type = "urban",
                            !.infrastructure_density = FMul(@, factor)])

\* C19: the casualty and infrastructure stages scale by the factor of the
\* location's terrain_type: on ocean terrain estimated_casualties,
\* injured_count, displaced_count, buildings_destroyed, buildings_damaged and
\* infrastructure_damage_cost are all 0 whatever the densities; a terrain type
\* absent from the tables (land) gets the defaults 0.5, 0.5 and 1.0; every
\* listed terrain type gets its own table value, never the default.
C19_TerrainFactors ==
    \A i \in Slots :
        Assessed(i) =>
            /\ damage_data[i].estimated_casualties
                   = TruncIntMul(UnscaledCasualties(i),
                                 TerrainFactors(location[i].terrain_type)[1])
            /\ damage_data[i].buildings_destroyed
                   = ScaledInfrastructure(i, TerrainFactors(location[i].terrain_type)[2])
                         .buildings_destroyed
            /\ damage_data[i].buildings_damaged
                   = ScaledInfrastructure(i, TerrainFactors(location[i].terrain_type)[2])
                         .buildings_damaged
            /\ damage_data[i].infrastructure_damage_cost
                   = ScaledInfrastructure(i, TerrainFactors(location[i].terrain_type)[2])
                         .infrastructure_damage_cost
            /\ damage_data[i].environmental_impact_score
                   = FMin(Flt(100, -1),
                          FMul(FMin(Flt(100, -1),
                                    FSub(impact_result_data[i].seismic_magnitude,
                                         Flt(40, -1))),
                               TerrainFactors(location[i].terrain_type)[3]))
            /\ location[i].terrain_type = "ocean" =>
                   /\ damage_data[i].estimated_casualties = 0
                   /\ damage_data[i].injured_count = 0
                   /\ damage_data[i].displaced_count = 0
                   /\ damage_data[i].buildings_destroyed = 0
                   /\ damage_data[i].buildings_damaged = 0
                   /\ damage_data[i].infrastructure_damage_cost = FZero

\* a populated ocean location was assessed: people and buildings within reach
\* of the impact, none counted
C19_OceanAssessed ==
    \E i \in Slots :
        /\ Assessed(i)
        /\ location[i].terrain_type = "ocean"
        /\ UnscaledCasualties(i) > 0
        /\ ScaledInfrastructure(i, Flt(10, -1)).buildings_destroyed > 0

\* location.population_density * math.pi * (radius / 1000) ** 2 for request i
PopulationWithin(i, radius) ==
    FMul(FMul(location[i].population_density, FPi),
         FMul(FDiv(radius, FromInt(1000)), FDiv(radius, FromInt(1000))))

\* C20: in every output of assess_damage, before any enhancer, injured_count
\* = 3 x estimated_casualties and displaced_count = 10 x estimated_casualties
\* exactly, where estimated_casualties = trunc(terrain_factor x (trunc(0.9 x
\* pop_in_blast) + trunc(0.3 x (pop_in_thermal - pop_in_blast)))).
C20_InjuredAndDisplaced ==
    \A i \in Slots :
        Assessed(i) =>
            /\ damage_data[i].injured_count = 3 * damage_data[i].estimated_casualties
            /\ damage_data[i].displaced_count = 10 * damage_data[i].estimated_casualties
            /\ damage_data[i].estimated_casualties
                   = TruncIntMul(
                         Trunc(FMul(Flt(9, -1),
                                    PopulationWithin(i, impact_result_data[i].blast_radius)))
                         + Trunc(FMul(Flt(3, -1),
                                      FSub(PopulationWithin(
                                               i, impact_result_data[i].thermal_radius),
                                           PopulationWithin(
                                               i, impact_result_data[i].blast_radius)))),
                         TerrainFactors(location[i].terrain_type)[1])

\* a desert location was assessed with casualties, fewer than before the
\* factor 0.05
C20_DesertAssessed ==
    \E i \in Slots :
        /\ Assessed(i)
        /\ location[i].terrain_type = "desert"
        /\ damage_data[i].estimated_casualties > 0
        /\ damage_data[i].estimated_casualties < UnscaledCasualties(i)

\* C21 (as stated): calculate_evacuation_radius returns 1.2 x max(blast_radius,
\* thermal_radius) when the seismic magnitude is at most 6.0, exactly 6.0
\* included, and 1.8 x that maximum when it is above 6.0.
C21_EvacuationRadius ==
    (called # NoneV /\ called.method = "calculate_evacuation_radius") =>
        called.result =
            FMul(IF FGt(called.args[3], Flt(60, -1)) THEN Flt(18, -1) ELSE Flt(12, -1),
                 FMax(called.args[1], called.args[2]))

\* C21 (amended): at most 6.0 the result is 1.2 x the maximum; above 6.0 the
\* maximum is multiplied by 1.5 and the product by 1.2, two roundings, which is
\* 1.8 x the maximum only up to the rounding of the intermediate product; the
\* affected area of an impact result is pi x (evacuation_radius / 1000)^2.
C21_EvacuationRadiusCompound ==
    /\ (called # NoneV /\ called.method = "calculate_evacuation_radius") =>
           called.result =
               IF FGt(called.args[3], Flt(60, -1))
               THEN FMul(FMul(FMax(called.args[1], called.args[2]), Flt(15, -1)),
                         Flt(12, -1))
               ELSE FMul(FMax(called.args[1], called.args[2]), Flt(12, -1))
    /\ (called # NoneV /\ called.method = "calculate_impact_result"
            /\ called.result # Raise) =>
           called.result.affected_area =
               FMul(FPi, FMul(FDiv(called.result.evacuation_radius, FromInt(1000)),
                              FDiv(called.result.evacuation_radius, FromInt(1000))))

\* C21 witness: a call above 6.0 with the maximum 455 has returned 820, which
\* is (455 x 1.5) x 1.2 after both roundings and not the rounded 1.8 x 455.
C21_ThresholdAndCompound ==
    /\ called # NoneV
    /\ called.method = "calculate_evacuation_radius"
    /\ called.args[3] = Flt(61, -1)
    /\ called.args[1] = Flt(455, 0)
    /\ called.args[2] = Flt(333, 0)
    /\ called.result = Flt(820, 0)
    /\ called.result # FMul(Flt(18, -1), Flt(455, 0))

\* C22: for an ocean location the tsunami height is computed from the
\* water_depth of the location whenever one is set, 0 included, and from 1000 m
\* only when none is set.
C22_TsunamiWaterDepth ==
    (/\ called # NoneV
     /\ called.method = "calculate_impact_result"
     /\ called.result # Raise
     /\ called.args[2].terrain_type = "ocean") =>
        called.result.tsunami_height =
            FMul(FMul(Flt(5, -1),
                      FRoot4(FDiv(FMul(KeMt(called.args[1]), Flt(4184, 12)),
                                  FromInt(1000)))),
                 FSqrt(FDiv(IF called.args[2].water_depth = NoneV
                            THEN FromInt(1000)
                            ELSE called.args[2].water_depth,
                            called.result.crater_diameter)))

\* C23: for the same asteroid the crater on an ocean location has 1.2 x the
\* diameter and 0.8 x the depth of the crater on a non-ocean location and the
\* same volume; on a non-ocean location the depth is diameter / 5 and the
\* volume (pi / 6) x diameter^2 x depth; the tsunami stage is given the
\* adjusted diameter.
C23_OceanCrater ==
    (/\ called # NoneV
     /\ called.method = "calculate_impact_result"
     /\ called.result # Raise) =>
        The({
            /\ land.crater_depth = FDiv(land.crater_diameter, Flt(50, -1))
            /\ land.crater_volume =
                   FMul(FMul(FDiv(FPi, FromInt(6)),
                             FMul(land.crater_diameter, land.crater_diameter)),
                        land.crater_depth)
            /\ called.args[2].terrain_type # "ocean" =>
                   /\ called.result.crater_diameter = land.crater_diameter
                   /\ called.result.crater_depth = land.crater_depth
                   /\ called.result.crater_volume = land.crater_volume
            /\ called.args[2].terrain_type = "ocean" =>
                   /\ called.result.crater_diameter =
                          FMul(land.crater_diameter, Flt(12, -1))
                   /\ called.result.crater_depth = FMul(land.crater_depth, Flt(8, -1))
                   /\ called.result.crater_volume = land.crater_volume
                   /\ called.result.tsunami_height =
                          calculate_tsunami_effects(ImpactCalculatorInit, called.args[1],
                              called.args[2],
                              FMul(land.crater_diameter, Flt(12, -1))).tsunami_height
          : land \in {calculate_crater_formation(ImpactCalculatorInit, called.args[1],
                          [called.args[2] EXCEPT !.terrain_type = "urban"])} })

\* C23 witness: an ocean impact has been computed whose crater is wider than
\* five times its depth and whose tsunami height differs from the one the
\* unadjusted diameter gives.
C23_OceanComputed ==
    /\ called # NoneV
    /\ called.method = "calculate_impact_result"
    /\ called.result # Raise
    /\ called.args[2].terrain_type = "ocean"
    /\ FGt(called.result.crater_diameter, FMul(called.result.crater_depth, Flt(50, -1)))
    /\ called.result.tsunami_height #
           calculate_tsunami_effects(ImpactCalculatorInit, called.args[1], called.args[2],
               FDiv(called.result.crater_diameter, Flt(12, -1))).tsunami_height

\* C24: the enhancer multiplies injured_count by 1 + min(1, population_density
\* / 20000), a factor between 1 and 2, and truncates, so the injuries never
\* decrease; it multiplies displaced_count by 1.25 exactly when energy_megatons
\* is strictly above 100; it changes estimated_casualties only on urban terrain.
C24_EnhancerAdjustments ==
    (called # NoneV /\ called.method = "enhance") =>
        The({
            /\ FGe(injury_multiplier, Flt(10, -1))
            /\ FLe(injury_multiplier, Flt(20, -1))
            /\ called.result.injured_count =
                   TruncIntMul(called.args[2].injured_count, injury_multiplier)
            /\ called.result.injured_count >= called.args[2].injured_count
            /\ called.result.displaced_count =
                   IF FGt(called.args[1].energy_megatons, FromInt(100))
                   THEN TruncIntMul(called.args[2].displaced_count, Flt(125, -2))
                   ELSE called.args[2].displaced_count
            /\ called.args[1].terrain_type # "urban" =>
                   called.result.estimated_casualties =
                       called.args[2].estimated_casualties
          : injury_multiplier \in
                {FAdd(Flt(10, -1),
                      FMin(Flt(10, -1),
                           FDiv(called.args[1].population_density, Flt(20000, 0))))} })

\* C24 witness: a call at exactly 100 megatons on rural terrain with more than
\* 20000 people per km^2 has doubled the injuries and left the displaced and
\* the casualties as they were.
C24_AtHundredMegatons ==
    /\ called # NoneV
    /\ called.method = "enhance"
    /\ called.args[1].energy_megatons = Flt(100, 0)
    /\ called.args[1].terrain_type = "rural"
    /\ called.args[1].population_density = Flt(50000, 0)
    /\ called.args[2].displaced_count > 0
    /\ called.result.injured_count = 2 * called.args[2].injured_count
    /\ called.result.displaced_count = called.args[2].displaced_count
    /\ called.result.estimated_casualties = called.args[2].estimated_casualties

C26_BuildingsSplit ==
    \A i \in Slots :
        (Finished(i) /\ Produced(impact_result_data[i]) /\ Produced(damage_data[i])) =>
            /\ damage_data[i].buildings_destroyed + damage_data[i].buildings_damaged =
                   Trunc(FMul(FMul(impact_result_data[i].affected_area, FromInt(1000)),
                              FMul(location[i].infrastructure_density,
                                   infrastructure_scaling(location[i].terrain_type))))
            /\ damage_data[i].infrastructure_damage_cost =
                   FAdd(FMul(FromInt(damage_data[i].buildings_destroyed), Flt(500000, 0)),
                        FMul(FromInt(damage_data[i].buildings_damaged), Flt(100000, 0)))

\* C27: an Asteroid of app.models.asteroid, with or without an explicit
\* density, whose diameter deviates by more than 10% from
\* 2 x (3 x mass / (4 x pi x density))^(1/3), the density being the supplied
\* one or the default of the composition, is rejected when it is constructed;
\* one within the tolerance is accepted.
C27_DiameterChecked ==
    \A i \in SlotsV1 :
        (deployment = "v1" /\ body[i] # NoneV
         /\ AsteroidFieldsOk(body[i].asteroid)) =>
            (AsteroidCreate(body[i].asteroid) = Raise
             <=> validate_diameter(body[i].asteroid.diameter, body[i].asteroid.mass,
                                   set_density(IF body[i].asteroid.density = Absent
                                               THEN NoneV
                                               ELSE body[i].asteroid.density,
                                               body[i].asteroid.composition)) = Raise)

\* C28: in the simulate endpoint the failure of an optional collaborator never
\* fails the request: an enrichment that raises leaves the original location
\* and adds the warning DATA_ENRICHMENT_FAILED; a trajectory calculation that
\* raises leaves the trajectory absent and adds TRAJECTORY_CALCULATION_FAILED;
\* an enhancer that raises leaves the un-enhanced damage assessment and adds
\* ML_ENHANCEMENT_FAILED; a save that raises still returns the response; and
\* there is no warning when none of them failed.
C28_OptionalFailures ==
    \A i \in Slots :
        (deployment = "v2" /\ Finished(i) /\ Produced(request[i])) =>
            /\ "enrichment" \in raised[i] =>
                   /\ location[i] = request[i].impact_location
                   /\ \E k \in 1..Len(warnings[i]) :
                          warnings[i][k] = "DATA_ENRICHMENT_FAILED"
            /\ "trajectory" \in raised[i] =>
                   /\ \E k \in 1..Len(warnings[i]) :
                          warnings[i][k] = "TRAJECTORY_CALCULATION_FAILED"
                   /\ response[i].status = 200 => response[i].trajectory = NoneV
            /\ "enhancer" \in raised[i] =>
                   /\ \E k \in 1..Len(warnings[i]) :
                          warnings[i][k] = "ML_ENHANCEMENT_FAILED"
                   /\ damage_data[i] = assess_damage(asteroid_input[i], location[i],
                                                     impact_result_data[i])
            /\ "database" \in raised[i] =>
                   /\ response[i].status = 200
                   /\ response[i].warnings = warnings[i]
            /\ raised[i] = {} => warnings[i] = <<>>
            /\ Len(warnings[i]) = Cardinality(raised[i] \ {"database"})
            /\ response[i].status = 500 =>
                   \/ ~Produced(asteroid_input[i])
                   \/ ~Produced(impact_result[i])
                   \/ DamageAssessment(damage_data[i]) = Raise
                   \/ SimulationResponseAsteroid(request[i], asteroid_input[i]) = Raise

\* C28 witness: a request during which the enrichment, the trajectory
\* calculation, the enhancer and the save all raised was answered with 200,
\* three warnings, no trajectory and the un-enhanced damage assessment.
C28_AllFourRaised ==
    \E i \in Slots :
        /\ deployment = "v2" /\ pc[i] = "done"
        /\ raised[i] = {"enrichment", "trajectory", "enhancer", "database"}
        /\ response[i].status = 200
        /\ response[i].trajectory = NoneV
        /\ response[i].warnings = <<"DATA_ENRICHMENT_FAILED",
                                    "TRAJECTORY_CALCULATION_FAILED",
                                    "ML_ENHANCEMENT_FAILED">>
        /\ i \notin db_simulations
        /\ damage_data[i] # enhance([energy_megatons |->
                                         kinetic_energy_megatons(asteroid_input[i]),
                                     terrain_type |-> location[i].terrain_type,
                                     population_density |->
                                         location[i].population_density],
                                    damage_data[i])

\* C29 (as stated): in every impact result fireball_radius < blast_radius <
\* thermal_radius < evacuation_radius, fireball_radius is blast_radius / 10,
\* thermal_radius is 1.5 x blast_radius, the maximum of blast and thermal radius
\* is the thermal radius, and evacuation_radius is exactly 1.8 x blast_radius
\* when the seismic magnitude is at most 6.0 and exactly 2.7 x blast_radius
\* when it is above.
C29_RadiiExact ==
    (/\ called # NoneV
     /\ called.method = "calculate_impact_result"
     /\ called.result # Raise) =>
        /\ FLt(called.result.fireball_radius, called.result.blast_radius)
        /\ FLt(called.result.blast_radius, called.result.thermal_radius)
        /\ FLt(called.result.thermal_radius, called.result.evacuation_radius)
        /\ called.result.fireball_radius = FDiv(called.result.blast_radius, FromInt(10))
        /\ called.result.thermal_radius = FMul(Flt(15, -1), called.result.blast_radius)
        /\ FMax(called.result.blast_radius, called.result.thermal_radius) =
               called.result.thermal_radius
        /\ called.result.evacuation_radius =
               FMul(IF FGt(called.result.seismic_magnitude, Flt(60, -1))
                    THEN Flt(27, -1) ELSE Flt(18, -1),
                    called.result.blast_radius)

\* C29 (amended): the order of the four radii is strict, fireball_radius is
\* (0.1 x energy_megatons^(1/3)) x 1000, thermal_radius is blast_radius x 1.5
\* and is the maximum, and evacuation_radius is thermal_radius x 1.2 at a
\* magnitude of at most 6.0 and (thermal_radius x 1.5) x 1.2 above it: 1.8 x
\* and 2.7 x blast_radius up to the rounding of the successive products.
C29_RadiiCompound ==
    (/\ called # NoneV
     /\ called.method = "calculate_impact_result"
     /\ called.result # Raise) =>
        /\ FLt(called.result.fireball_radius, called.result.blast_radius)
        /\ FLt(called.result.blast_radius, called.result.thermal_radius)
        /\ FLt(called.result.thermal_radius, called.result.evacuation_radius)
        /\ called.result.fireball_radius =
               FMul(FMul(Flt(1, -1), FCbrt(KeMt(called.args[1]))), FromInt(1000))
        /\ called.result.thermal_radius = FMul(called.result.blast_radius, Flt(15, -1))
        /\ FMax(called.result.blast_radius, called.result.thermal_radius) =
               called.result.thermal_radius
        /\ called.result.evacuation_radius =
               IF FGt(called.result.seismic_magnitude, Flt(60, -1))
               THEN FMul(FMul(called.result.thermal_radius, Flt(15, -1)), Flt(12, -1))
               ELSE FMul(called.result.thermal_radius, Flt(12, -1))

\* C29 witness: an impact above magnitude 6.0 has been computed whose
\* evacuation radius is not the rounded 2.7 x blast_radius.
C29_SeismicComputed ==
    /\ called # NoneV
    /\ called.method = "calculate_impact_result"
    /\ called.result # Raise
    /\ FGt(called.result.seismic_magnitude, Flt(60, -1))
    /\ FLt(called.result.fireball_radius, called.result.blast_radius)
    /\ called.result.evacuation_radius #
           FMul(Flt(27, -1), called.result.blast_radius)

\* C30: the TTL cache of the NASA client: _cache and _cache_expiry have the
\* same keys; a lookup never returns a value whose expiry is earlier than the
\* time of the lookup, an expired entry being removed from both dicts; a value
\* stored at time t is returned by every lookup of its key up to t + ttl
\* unless it was overwritten; and the fallback returned after a failed
\* upstream call is never stored.
C30_TtlCache ==
    /\ DOMAIN _cache = DOMAIN _cache_expiry
    /\ \A q \in 1..Len(returned) :
           returned[q].cached =>
               \E p \in 1..(q - 1) :
                   /\ returned[p].key = returned[q].key
                   /\ returned[p].stored
                   /\ returned[p].data = returned[q].data
                   /\ returned[q].at <= returned[p].at + _ttl_seconds
    /\ \A p, q \in 1..Len(returned) :
           (/\ p < q
            /\ returned[p].stored
            /\ returned[q].key = returned[p].key
            /\ returned[q].at <= returned[p].at + _ttl_seconds
            /\ \A m \in (p + 1)..(q - 1) :
                   ~(returned[m].stored /\ returned[m].key = returned[p].key)) =>
               /\ returned[q].cached
               /\ returned[q].data = returned[p].data
    /\ \A p \in 1..Len(returned) :
           (~returned[p].cached /\ ~returned[p].stored) =>
               /\ \A k \in DOMAIN _cache : _cache[k] # returned[p].data
               /\ \A q \in (p + 1)..Len(returned) :
                      returned[q].cached => returned[q].data # returned[p].data
               /\ p = Len(returned) =>
                      /\ returned[p].key \notin DOMAIN _cache
                      /\ returned[p].key \notin DOMAIN _cache_expiry

\* C30 witness: a value stored at time 0 was returned from the cache at time
\* 300, the last moment of its life; at time 450 the lookup found it expired,
\* the upstream call failed, and the key is in neither dict.
C30_ExpiredAndFailed ==
    /\ Len(returned) = 3
    /\ returned[1].method = "get_asteroid_data"
    /\ returned[1].stored /\ returned[1].at = 0
    /\ returned[2].cached /\ returned[2].at = _ttl_seconds
    /\ returned[2].data = returned[1].data
    /\ returned[3].at > _ttl_seconds
    /\ ~returned[3].cached /\ ~returned[3].stored
    /\ returned[3].key = returned[1].key
    /\ returned[3].key \notin DOMAIN _cache
    /\ returned[3].key \notin DOMAIN _cache_expiry

=============================================================================
